---- MODULE Spec2Model ----
(***************************************************************************)
(* Verification model of the inventory assistant's SQL template validator  *)
(* (app/sql_validator.py) and of the request handlers that call it         *)
(* (app/routes/api.py, app/db.py).                                         *)
(*                                                                         *)
(* SQL text is a TLA+ string handled character by character, the way the   *)
(* Python code handles it (substring tests, regular expressions, split,    *)
(* strip, lower).  The inputs are token lists rendered to text under a     *)
(* whitespace layout and a letter case, so that what a statement means is  *)
(* read off its tokens while the validator only ever sees the text.        *)
(***************************************************************************)
EXTENDS Integers, Sequences, FiniteSets, TLC

VARIABLES
    q,          \* the statement handed to the validator: tokens, layout, case
    sql,        \* its text
    call,       \* the validator function that was called, "none" before
    result,     \* what the call returned
    exprs,      \* the argument of validate_expressions
    fault,      \* an error was raised inside the call (by the parser or a match)
    raised,     \* the call let an exception through to its caller
    schema,     \* the module's ALLOWED_TABLES, ALLOWED_FUNCTIONS, ALLOWED_OPERATORS
    verdicts,   \* what the calls of validate_sql on this text returned, in order
    inventory,  \* the rows of the inventory table, by item
    req,        \* the requests to /process_query
    calls,      \* the calls of execute_query and execute_modification so far
    mod,        \* the latest call of process_modification: arguments and outcome
    modCount,   \* the number of calls of process_modification so far
    db,         \* the latest call of a function of app/db.py: arguments and outcome
    ai,         \* the latest call of a function of app/ai_processing.py
    pq,         \* the latest run of process_query on a generated template
    hist        \* the conversation histories, the list objects and the requests using them

validatorVars == <<q, sql, call, result, exprs, fault, raised, schema, verdicts>>
apiVars == <<inventory, req, calls>>
modVars == <<mod, modCount>>
unitVars == <<db, ai, pq, hist>>
vars ==
    <<q, sql, call, result, exprs, fault, raised, schema, verdicts, inventory, req, calls,
      mod, modCount, db, ai, pq, hist>>

-----------------------------------------------------------------------------
(* Characters and strings                                                  *)

Ch(s, i) == SubSeq(s, i, i)

LowerLetters ==
    {"a", "b", "c", "d", "e", "f", "g", "h", "i", "j", "k", "l", "m"} \cup
    {"n", "o", "p", "q", "r", "s", "t", "u", "v", "w", "x", "y", "z"}

UpperLetters ==
    {"A", "B", "C", "D", "E", "F", "G", "H", "I", "J", "K", "L", "M"} \cup
    {"N", "O", "P", "Q", "R", "S", "T", "U", "V", "W", "X", "Y", "Z"}

Digits == {"0", "1", "2", "3", "4", "5", "6", "7", "8", "9"}

IsDigit(c) == c \in Digits
IsLetter(c) == c \in LowerLetters \/ c \in UpperLetters
\* \w of Python's re module on ASCII text
IsWordCh(c) == IsLetter(c) \/ IsDigit(c) \/ c = "_"
\* \s of Python's re module, and the characters str.strip() removes
IsSpace(c) == c \in {" ", "\n", "\t", "\r"}

LowerCh(c) ==
    CASE c = "A" -> "a"
      [] c = "B" -> "b"
      [] c = "C" -> "c"
      [] c = "D" -> "d"
      [] c = "E" -> "e"
      [] c = "F" -> "f"
      [] c = "G" -> "g"
      [] c = "H" -> "h"
      [] c = "I" -> "i"
      [] c = "J" -> "j"
      [] c = "K" -> "k"
      [] c = "L" -> "l"
      [] c = "M" -> "m"
      [] c = "N" -> "n"
      [] c = "O" -> "o"
      [] c = "P" -> "p"
      [] c = "Q" -> "q"
      [] c = "R" -> "r"
      [] c = "S" -> "s"
      [] c = "T" -> "t"
      [] c = "U" -> "u"
      [] c = "V" -> "v"
      [] c = "W" -> "w"
      [] c = "X" -> "x"
      [] c = "Y" -> "y"
      [] c = "Z" -> "z"
      [] OTHER -> c

UpperCh(c) ==
    CASE c = "a" -> "A"
      [] c = "b" -> "B"
      [] c = "c" -> "C"
      [] c = "d" -> "D"
      [] c = "e" -> "E"
      [] c = "f" -> "F"
      [] c = "g" -> "G"
      [] c = "h" -> "H"
      [] c = "i" -> "I"
      [] c = "j" -> "J"
      [] c = "k" -> "K"
      [] c = "l" -> "L"
      [] c = "m" -> "M"
      [] c = "n" -> "N"
      [] c = "o" -> "O"
      [] c = "p" -> "P"
      [] c = "q" -> "Q"
      [] c = "r" -> "R"
      [] c = "s" -> "S"
      [] c = "t" -> "T"
      [] c = "u" -> "U"
      [] c = "v" -> "V"
      [] c = "w" -> "W"
      [] c = "x" -> "X"
      [] c = "y" -> "Y"
      [] c = "z" -> "Z"
      [] OTHER -> c

\* The character-wise conversions and scans below halve their range instead of
\* walking it, which keeps the evaluation depth logarithmic in the text length.
RECURSIVE LowerRange(_, _, _)
LowerRange(s, a, b) ==
    IF a > b THEN ""
    ELSE IF a = b THEN LowerCh(Ch(s, a))
    ELSE LET m == (a + b) \div 2 IN LowerRange(s, a, m) \o LowerRange(s, m + 1, b)

\* str.lower()
Lower(s) == LowerRange(s, 1, Len(s))

RECURSIVE UpperRange(_, _, _)
UpperRange(s, a, b) ==
    IF a > b THEN ""
    ELSE IF a = b THEN UpperCh(Ch(s, a))
    ELSE LET m == (a + b) \div 2 IN UpperRange(s, a, m) \o UpperRange(s, m + 1, b)

\* str.upper()
Upper(s) == UpperRange(s, 1, Len(s))

\* the literal lit stands in s at position i
At(s, i, lit) == i >= 1 /\ i + Len(lit) - 1 <= Len(s) /\ SubSeq(s, i, i + Len(lit) - 1) = lit

\* the positions of s at which lit occurs
Find(s, lit) == {i \in 1..Len(s) : At(s, i, lit)}

\* Python's  lit in s
Contains(s, lit) == \E i \in 1..Len(s) : At(s, i, lit)

Min(S) == CHOOSE x \in S : \A y \in S : x <= y

\* the first position >= i that holds no white space (Len(s) + 1 at the end):
\* where a greedy \s* that started at i stops
RECURSIVE SkipWs(_, _)
SkipWs(s, i) == IF i <= Len(s) /\ IsSpace(Ch(s, i)) THEN SkipWs(s, i + 1) ELSE i

RECURSIVE SkipWsBack(_, _)
SkipWsBack(s, i) == IF i >= 1 /\ IsSpace(Ch(s, i)) THEN SkipWsBack(s, i - 1) ELSE i

\* str.strip()
Strip(s) == LET a == SkipWs(s, 1) b == SkipWsBack(s, Len(s)) IN SubSeq(s, a, b)

\* s.split(sepr)[0] and s.split(sepr, 1)[0]: the text before the first sepr
BeforeFirst(s, sepr) ==
    LET P == Find(s, sepr) IN IF P = {} THEN s ELSE SubSeq(s, 1, Min(P) - 1)

\* s.split(sepr, 1)[1]: the text after the first sepr
AfterFirst(s, sepr) ==
    LET P == Find(s, sepr) IN SubSeq(s, Min(P) + Len(sepr), Len(s))

\* the regular expression \b at the gap before position i
WordBoundary(s, i) ==
    LET before == i - 1 >= 1 /\ i - 1 <= Len(s) /\ IsWordCh(Ch(s, i - 1))
        after == i >= 1 /\ i <= Len(s) /\ IsWordCh(Ch(s, i))
    IN  before # after

\* re.search(r'\bword\b', s)
HasWord(s, word) ==
    \E i \in 1..Len(s) :
        At(s, i, word) /\ WordBoundary(s, i) /\ WordBoundary(s, i + Len(word))

\* the literals of lits in this order from position i on, \s* between them:
\* 0 when they do not match, else the position after the last one
RECURSIVE MatchLits(_, _, _)
MatchLits(s, i, lits) ==
    IF lits = <<>> THEN i
    ELSE IF At(s, i, Head(lits))
         THEN IF Len(lits) = 1 THEN i + Len(Head(lits))
              ELSE MatchLits(s, SkipWs(s, i + Len(Head(lits))), Tail(lits))
         ELSE 0

\* re.search of  lit1\s*lit2\s*...  in s
SearchLits(s, lits) == \E i \in 1..Len(s) : MatchLits(s, i, lits) > 0

\* re.search(head\s+(.*?)\s+tail, s, re.DOTALL): <<matched, group(1).strip()>>.
\* From the leftmost head that matches, \s+ is greedy and (.*?) is the shortest
\* text that white space and tail follow; when none is, head, two or more white
\* space characters and tail match with an empty group.
LazyGroup(s, head, tail) ==
    LET Starts == {p \in 1..Len(s) :
                     /\ At(s, p, head)
                     /\ p + Len(head) <= Len(s)
                     /\ IsSpace(Ch(s, p + Len(head)))
                     /\ \E e \in (p + Len(head))..Len(s) :
                            /\ IsSpace(Ch(s, e))
                            /\ At(s, SkipWs(s, e), tail)
                            /\ SkipWs(s, e) > p + Len(head) + 1}
    IN  IF Starts = {} THEN <<FALSE, "">>
        ELSE LET p == Min(Starts)
                 w == SkipWs(s, p + Len(head))
                 Ends == {e \in w..Len(s) :
                            /\ e + 1 <= Len(s)
                            /\ IsSpace(Ch(s, e + 1))
                            /\ At(s, SkipWs(s, e + 1), tail)}
             IN  IF Ends = {} THEN <<TRUE, "">>
                 ELSE <<TRUE, Strip(SubSeq(s, w, Min(Ends)))>>

-----------------------------------------------------------------------------
(* The schema registry                                                     *)

ALLOWED_COLUMNS == {"id", "item", "unit_cost", "unit_price", "quantity_sold", "quantity_available"}

ALLOWED_TABLES == [t \in {"inventory"} |-> ALLOWED_COLUMNS]

ALLOWED_FUNCTIONS == {"count", "sum", "avg", "max", "min", "strftime"}

ALLOWED_OPERATORS == {"+", "-", "*", "/", "%"}

\* the alias names the identifier check lets through
ALLOWED_ALIASES ==
    {"as", "total_profit", "profit_per_unit", "total_cost_value", "total_price_value",
     "total_value", "avg_price", "avg_cost", "min_price", "max_price", "inventory_value",
     "count", "total", "average", "minimum", "maximum"}

-----------------------------------------------------------------------------
(* sqlparse, as far as validate_sql uses it                                *)

\* One step of sqlparse's statement splitter over the character at position i.
\* st.level is the split level (parentheses raise and lower it), st.consume is
\* set by a ';' at level <= 0, st.tok says that the pending statement holds a
\* token that is not white space, st.mode tells code from string literals and
\* comments, st.count is the number of statements yielded so far.
SplitStep(s, i, st) ==
    LET c == Ch(s, i)
        \* a token that is neither white space nor a one-line comment arrives
        \* after a separator: the pending statement is yielded, the filter reset
        yield == st.mode = "code" /\ st.consume /\ c \notin {" ", "\t"} /\ ~At(s, i, "--")
        b == IF yield
             THEN [st EXCEPT !.count = st.count + 1, !.level = 0,
                             !.consume = FALSE, !.tok = FALSE]
             ELSE st
    IN  CASE b.mode = "str" ->
               IF c = "'" THEN [b EXCEPT !.mode = "code"] ELSE b
          [] b.mode = "line" ->
               IF c = "\n" THEN [b EXCEPT !.mode = "code"] ELSE b
          [] b.mode = "block" ->
               IF At(s, i - 1, "*/") THEN [b EXCEPT !.mode = "code"] ELSE b
          [] OTHER ->
               IF c = "'" THEN [b EXCEPT !.mode = "str", !.tok = TRUE]
               ELSE IF At(s, i, "--") THEN [b EXCEPT !.mode = "line"]
               ELSE IF At(s, i, "/*") THEN [b EXCEPT !.mode = "block", !.tok = TRUE]
               ELSE IF c = "(" THEN [b EXCEPT !.level = b.level + 1, !.tok = TRUE]
               ELSE IF c = ")" THEN [b EXCEPT !.level = b.level - 1, !.tok = TRUE]
               ELSE IF c = ";"
                    THEN [b EXCEPT !.tok = TRUE, !.consume = (b.level <= 0)]
               ELSE IF IsSpace(c) THEN b
               ELSE [b EXCEPT !.tok = TRUE]

RECURSIVE SplitRange(_, _, _, _)
SplitRange(s, a, b, st) ==
    IF a > b THEN st
    ELSE IF a = b THEN SplitStep(s, a, st)
    ELSE LET m == (a + b) \div 2
             left == SplitRange(s, a, m, st)
         IN  IF left.count >= 0 THEN SplitRange(s, m + 1, b, left) ELSE left

\* len(sqlparse.parse(s)): the number of statements the text is split into; the
\* statement pending at the end is yielded unless it is white space only
StatementCount(s) ==
    LET st == SplitRange(s, 1, Len(s), [level |-> 0, consume |-> FALSE, tok |-> FALSE,
                                        mode |-> "code", count |-> 0])
    IN  IF st.tok THEN st.count + 1 ELSE st.count

RECURSIVE WordEnd(_, _)
WordEnd(s, i) == IF i <= Len(s) /\ IsWordCh(Ch(s, i)) THEN WordEnd(s, i + 1) ELSE i

\* the keywords sqlparse lexes as DML or DDL
DMLKeywords == {"SELECT", "INSERT", "DELETE", "UPDATE", "UPSERT", "REPLACE", "MERGE"}
DDLKeywords == {"DROP", "CREATE", "ALTER"}

\* Statement.get_type(): the first token that is not white space, upper-cased,
\* when it is a DML or DDL keyword, and UNKNOWN otherwise
get_type(s) ==
    LET a == SkipWs(s, 1)
        word == Upper(SubSeq(s, a, WordEnd(s, a) - 1))
    IN  IF word \in DMLKeywords \cup DDLKeywords THEN word ELSE "UNKNOWN"

\* What "for token in parsed.flatten()" collects into identifiers, tables and
\* functions.  flatten() yields the leaf tokens of the parse tree only, and a
\* leaf is never an instance of sqlparse.sql.Identifier or sqlparse.sql.Function
\* (both are token groups), so neither branch of the loop body is ever taken.
FlattenIdentifiers(s) == {}
FlattenTables(s) == {}
FlattenFunctions(s) == {}

-----------------------------------------------------------------------------
(* validate_expressions                                                    *)

\* the characters re.split(r'[\s\(\)\+\-\*\/\%\,]', expr) splits at
IsSplitCh(c) == IsSpace(c) \/ c \in {"(", ")", "+", "-", "*", "/", "%", ","}

RECURSIVE PartEnd(_, _)
PartEnd(s, i) == IF i <= Len(s) /\ ~IsSplitCh(Ch(s, i)) THEN PartEnd(s, i + 1) ELSE i

\* the non-empty fragments of expr: its maximal runs of other characters
ExprParts(expr) ==
    {SubSeq(expr, a, PartEnd(expr, a) - 1) :
        a \in {i \in 1..Len(expr) : /\ ~IsSplitCh(Ch(expr, i))
                                    /\ (i = 1 \/ IsSplitCh(Ch(expr, i - 1)))}}

\* str.isdigit()
AllDigits(s) == s # "" /\ \A i \in 1..Len(s) : IsDigit(Ch(s, i))

\* part.replace('.', '', 1).isdigit()
IsNumber(part) ==
    LET P == Find(part, ".")
    IN  IF P = {} THEN AllDigits(part)
        ELSE AllDigits(SubSeq(part, 1, Min(P) - 1) \o SubSeq(part, Min(P) + 1, Len(part)))

\* expr without its alias: the text before the first " as "
StripAlias(expr) ==
    IF Contains(Lower(expr), " as ") THEN Strip(BeforeFirst(expr, " as ")) ELSE expr

PartAllowed(part) ==
    \/ IsNumber(part)
    \/ Lower(part) \in ALLOWED_COLUMNS
    \/ Lower(part) \in ALLOWED_FUNCTIONS

UnsafeWords ==
    {"case", "when", "then", "else", "end", "select", "from", "union", "except",
     "intersect", "exists", "create", "drop", "alter", "delete", "insert"}

\* re.search(r'\b(in|not\s+in)\b\s*\(', s)
HasInList(s) ==
    \E i \in 1..Len(s) :
        /\ WordBoundary(s, i)
        /\ LET afterIn(j) == /\ At(s, j, "in")
                             /\ WordBoundary(s, j + 2)
                             /\ At(s, SkipWs(s, j + 2), "(")
           IN  \/ afterIn(i)
               \/ /\ At(s, i, "not")
                  /\ i + 3 <= Len(s)
                  /\ IsSpace(Ch(s, i + 3))
                  /\ afterIn(SkipWs(s, i + 3))

HasUnsafePattern(expr) ==
    LET e == Lower(expr)
    IN  \/ \E w \in UnsafeWords : HasWord(e, w)
        \/ HasInList(e)
        \/ Contains(e, ";")

validate_expressions(expressions) ==
    /\ \A k \in 1..Len(expressions) :
           \A part \in ExprParts(StripAlias(expressions[k])) : PartAllowed(part)
    /\ \A k \in 1..Len(expressions) : ~HasUnsafePattern(expressions[k])

-----------------------------------------------------------------------------
(* validate_update_statement                                               *)

\* a test for the verb that leaves the table open
StartsWithUpdate(s) == At(s, SkipWs(s, 1), "update")

\* re.search(r'^\s*update\s+inventory\b', s)
TargetsInventory(s) ==
    LET a == SkipWs(s, 1)
        b == SkipWs(s, a + 6)
    IN  /\ At(s, a, "update")
        /\ b > a + 6
        /\ At(s, b, "inventory")
        /\ WordBoundary(s, b + 9)

\* a WHERE pattern that knows the item column only
WhereOnItemOnly(s) ==
    \E i \in 1..Len(s) :
        /\ At(s, i, "where")
        /\ LET a == SkipWs(s, i + 5)
           IN  a > i + 5 /\ MatchLits(s, a, <<"item", "=", "?">>) > 0

\* re.search(r'where\s+(item\s*=\s*\?|id\s*=\s*\?)', s)
WhereOnIdentity(s) ==
    \E i \in 1..Len(s) :
        /\ At(s, i, "where")
        /\ LET a == SkipWs(s, i + 5)
           IN  /\ a > i + 5
               /\ \/ MatchLits(s, a, <<"item", "=", "?">>) > 0
                  \/ MatchLits(s, a, <<"id", "=", "?">>) > 0

SoldIncrement == <<"quantity_sold", "=", "quantity_sold", "+", "?">>
AvailableDecrement == <<"quantity_available", "=", "quantity_available", "-", "?">>
AvailableIncrement == <<"quantity_available", "=", "quantity_available", "+", "?">>

\* a verdict on the SET clause that asks for both record-sale assignments
\* whatever the layout is
RecordSaleNeedsBoth(set_columns) ==
    \/ /\ SearchLits(set_columns, SoldIncrement)
       /\ SearchLits(set_columns, AvailableDecrement)
    \/ SearchLits(set_columns, AvailableIncrement)

\* the verdict on the SET clause, lines 309-330
SetClauseAllowed(set_columns) ==
    LET valid_record_sale ==
            IF Contains(set_columns, ",") \/ Contains(set_columns, "\n")
            THEN /\ SearchLits(set_columns, SoldIncrement)
                 /\ SearchLits(set_columns, AvailableDecrement)
            ELSE \/ SearchLits(set_columns, SoldIncrement)
                 \/ SearchLits(set_columns, AvailableDecrement)
        valid_add_stock == SearchLits(set_columns, AvailableIncrement)
    IN  valid_record_sale \/ valid_add_stock

validate_update_statement(sql_query) ==
    LET sql_lower == Lower(sql_query)
        set_clause == LazyGroup(sql_lower, "set", "where")
    IN  IF ~TargetsInventory(sql_lower) THEN FALSE
        ELSE IF ~Contains(sql_lower, "where") THEN FALSE
        ELSE IF ~WhereOnIdentity(sql_lower) THEN FALSE
        ELSE IF ~set_clause[1] THEN FALSE
        ELSE SetClauseAllowed(set_clause[2])

-----------------------------------------------------------------------------
(* validate_sql                                                            *)

\* one pass of the loop of lines 78-92 over the character at position i
ColumnStep(s, i, st) ==
    LET char == Ch(s, i)
    IN  IF char = "("
        THEN [st EXCEPT !.in_parentheses = st.in_parentheses + 1,
                        !.current_col = st.current_col \o char]
        ELSE IF char = ")" /\ st.in_parentheses > 0
        THEN [st EXCEPT !.in_parentheses = st.in_parentheses - 1,
                        !.current_col = st.current_col \o char]
        ELSE IF char = "," /\ st.in_parentheses = 0
        THEN [st EXCEPT !.col_list = Append(st.col_list, Strip(st.current_col)),
                        !.current_col = ""]
        ELSE [st EXCEPT !.current_col = st.current_col \o char]

RECURSIVE ColumnRange(_, _, _, _)
ColumnRange(s, a, b, st) ==
    IF a > b THEN st
    ELSE IF a = b THEN ColumnStep(s, a, st)
    ELSE LET m == (a + b) \div 2
             left == ColumnRange(s, a, m, st)
         IN  IF left.in_parentheses >= 0 THEN ColumnRange(s, m + 1, b, left) ELSE left

\* lines 73-95: select_columns split at the commas outside parentheses, each
\* term stripped
SplitColumns(select_columns) ==
    LET st == ColumnRange(select_columns, 1, Len(select_columns),
                          [in_parentheses |-> 0, current_col |-> "", col_list |-> <<>>])
    IN  IF st.current_col # "" THEN Append(st.col_list, Strip(st.current_col))
        ELSE st.col_list

\* the terms of the select list; none when the select list is * or when
\* select\s+(.*?)\s+from does not match
SelectTerms(sql_lower) ==
    LET select_match == LazyGroup(sql_lower, "select", "from")
    IN  IF ~select_match[1] \/ select_match[2] = "*" THEN <<>>
        ELSE SplitColumns(select_match[2])

\* a term with a parenthesis or an arithmetic operator is a computed expression
IsExpression(col) == Contains(col, "(") \/ \E op \in ALLOWED_OPERATORS : Contains(col, op)

\* re.search(r'^(\w+)\(', col): the function name a term starts with, or ""
LeadingFunction(col) ==
    LET e == WordEnd(col, 1)
    IN  IF e > 1 /\ At(col, e, "(") THEN SubSeq(col, 1, e - 1) ELSE ""

\* a plain term without its alias and its table prefix
PlainColumn(col) ==
    LET c1 == IF Contains(col, " as ") THEN Strip(BeforeFirst(col, " as ")) ELSE col
    IN  IF Contains(c1, ".") THEN AfterFirst(c1, ".") ELSE c1

AllowsEveryVerb(statement_type) == TRUE

\* line 46: only SELECT and UPDATE statements are supported
AllowedStatementType(statement_type) == statement_type \in {"SELECT", "UPDATE"}

validate_sql(sql_query) ==
    IF sql_query = "" THEN FALSE
    ELSE IF StatementCount(sql_query) = 0 THEN FALSE
    ELSE IF StatementCount(sql_query) > 1 THEN FALSE
    ELSE
    LET statement_type == get_type(sql_query)
        sql_lower == Lower(sql_query)
        col_list == IF statement_type = "SELECT" THEN SelectTerms(sql_lower) ELSE <<>>
        Terms == {col_list[k] : k \in 1..Len(col_list)}
        tables ==
            (IF statement_type = "SELECT" /\ Contains(sql_lower, "from inventory")
             THEN {"inventory"} ELSE {}) \cup FlattenTables(sql_query)
        functions ==
            {LeadingFunction(col) : col \in {c \in Terms : LeadingFunction(c) \in ALLOWED_FUNCTIONS}}
                \cup FlattenFunctions(sql_query)
        expressions == SelectSeq(col_list, IsExpression)
        columns == {PlainColumn(col) : col \in {c \in Terms : ~IsExpression(c)}}
        identifiers == FlattenIdentifiers(sql_query)
    IN  IF ~AllowedStatementType(statement_type) THEN FALSE
        ELSE IF \E func \in functions : func \notin ALLOWED_FUNCTIONS THEN FALSE
        ELSE IF \E table \in tables : table \notin DOMAIN ALLOWED_TABLES THEN FALSE
        ELSE IF statement_type = "SELECT" /\ ~(\E table \in tables : table \in DOMAIN ALLOWED_TABLES)
             THEN FALSE
        ELSE IF statement_type = "SELECT" /\ expressions # <<>> /\ ~validate_expressions(expressions)
             THEN FALSE
        ELSE IF \E col \in columns : col \notin ALLOWED_COLUMNS THEN FALSE
        ELSE IF \E ident \in identifiers \ columns :
                    /\ ident \notin DOMAIN ALLOWED_TABLES
                    /\ ident \notin ALLOWED_COLUMNS
                    /\ ident \notin ALLOWED_FUNCTIONS
                    /\ ident \notin ALLOWED_ALIASES
             THEN FALSE
        ELSE IF statement_type = "UPDATE" THEN validate_update_statement(sql_query)
        ELSE TRUE

\* the module globals of lines 10-16 as the running program holds them
StaticSchema ==
    [tables |-> ALLOWED_TABLES, functions |-> ALLOWED_FUNCTIONS, operators |-> ALLOWED_OPERATORS]

\* a validator that takes the functions it met out of the global set
GlobalsConsumed(globals) == [globals EXCEPT !.functions = {}]

\* the globals after a call: validate_sql, validate_expressions and
\* validate_update_statement assign to none of them and call no mutating
\* method on them (line 223 and line 184 build a new set with set().union)
GlobalsAfterCall(globals) == globals

\* the verdicts a call can return when the globals are the value globals: with
\* the globals of lines 10-16 the verdict of validate_sql, with other globals
\* a verdict this model does not compute
VerdictsUnder(globals, sql_query) ==
    IF globals = StaticSchema THEN {validate_sql(sql_query)} ELSE BOOLEAN

\* a handler that lets the exception through
ExceptionEscapes(sql_query) == TRUE

\* lines 24-33 and 214-217: whether an error raised inside the call reaches
\* the caller.  Everything after the test of line 24 stands inside
\* try ... except Exception, which logs the error and returns False.
ExceptionReachesCaller(sql_query) == FALSE

-----------------------------------------------------------------------------
(* The statements the validator is run on                                  *)

\* An input is a list of lower-case tokens with a layout (the white space put
\* between two tokens) and a letter case.  Its text is Render(input).

Keywords ==
    {"select", "from", "where", "join", "on", "union", "group", "by", "order",
     "and", "or", "in", "as", "update", "set", "insert", "into", "values",
     "delete", "drop", "table", "alter", "create", "pragma", "add", "column",
     "case", "when", "then", "else", "end"}

\* a table, column, function or alias name
IsIdentTok(t) == IsLetter(Ch(t, 1)) /\ t \notin Keywords

Layouts == {"sp", "lines", "nl", "sp2", "indent", "tight"}

\* the keywords a statement laid out in lines starts a new line at
ClauseKeywords == {"from", "where", "set", "group", "order", "union", "join"}
Cases == {"std", "lower", "upper"}

\* the white space between the adjacent tokens prev and next
Gap(prev, next, layout) ==
    IF next \in {",", ")", ";"} \/ prev = "(" THEN ""
    ELSE IF next = "(" /\ IsIdentTok(prev) THEN ""
    ELSE CASE layout = "sp" -> " "
           [] layout = "lines" -> IF next \in ClauseKeywords THEN "\n" ELSE " "
           [] layout = "nl" -> "\n"
           [] layout = "sp2" -> "  "
           [] layout = "indent" -> "\n    "
           [] layout = "tight" -> IF prev = ")" THEN "" ELSE " "

Cased(t, cs) ==
    CASE cs = "lower" -> t
      [] cs = "upper" -> Upper(t)
      [] cs = "std" -> IF t \in Keywords THEN Upper(t) ELSE t

RECURSIVE RenderRange(_, _, _, _, _)
RenderRange(toks, a, b, layout, cs) ==
    IF a > b THEN ""
    ELSE IF a = b
         THEN (IF a = 1 THEN "" ELSE Gap(toks[a - 1], toks[a], layout)) \o Cased(toks[a], cs)
    ELSE LET m == (a + b) \div 2
         IN  RenderRange(toks, a, m, layout, cs) \o RenderRange(toks, m + 1, b, layout, cs)

RenderToks(toks, layout, cs) == RenderRange(toks, 1, Len(toks), layout, cs)

Render(in) == RenderToks(in.toks, in.layout, in.cs)

\* --- SELECT statements ---
SelStar == <<"*">>
SelItem == <<"item">>
SelTwo == <<"item", ",", "quantity_available">>
SelBadColumn == <<"item", ",", "price">>
SelProfit == <<"item", ",", "(", "unit_price", "-", "unit_cost", ")", "as", "profit_per_unit">>
SelBadProfit == <<"item", ",", "(", "price", "-", "cost", ")", "as", "profit">>
SelBadBare == <<"item", ",", "(", "price", "-", "cost", ")">>
SelScaled == <<"item", ",", "unit_price", "*", "2", "as", "total">>
SelSum == <<"sum", "(", "quantity_sold", ")">>
SelBadFunction == <<"upper", "(", "item", ")">>

SelectLists ==
    {SelStar, SelItem, SelTwo, SelBadColumn, SelProfit, SelBadProfit, SelBadBare,
     SelScaled, SelSum, SelBadFunction}

\* what is put in the place of unit_cost in the computed term
\* (unit_price - unit_cost): a CASE expression, a UNION, a nested SELECT and a
\* stacked DROP TABLE
Insertions ==
    {<<"case", "when", "unit_cost", ">", "0", "then", "unit_cost", "else", "0", "end">>,
     <<"unit_cost", "union", "select", "id">>,
     <<"(", "select", "max", "(", "unit_cost", ")", "from", "inventory", ")">>,
     <<"unit_cost", ";", "drop", "table", "inventory">>}

SelComputed(operand) == <<"item", ",", "(", "unit_price", "-">> \o operand \o <<")">>

SelBare == SelComputed(<<"unit_cost">>)

FromInventory == <<"inventory">>
FromClauses ==
    {FromInventory,
     <<"users">>,
     <<"inventory_backup">>,
     <<"inventory", "join", "users", "on", "id", "=", "id">>,
     <<"inventory", ",", "users">>}

NoWhere == <<>>
WhereItem == <<"where", "item", "=", "?">>
SelectWheres ==
    {NoWhere,
     WhereItem,
     <<"where", "quantity_available", "=", "?">>,
     <<"where", "password", "=", "?">>,
     <<"where", "upper", "(", "item", ")", "=", "?">>,
     <<"where", "id", "in", "(", "select", "id", "from", "users", ")">>,
     <<"where", "id", "in", "(", "?", ";", "drop", "table", "inventory">>}

NoTail == <<>>
SelectTails ==
    {NoTail,
     <<"union", "select", "item", "from", "users">>,
     <<"group", "by", "item">>,
     <<"order", "by", "secret">>,
     <<"order", "by", "length", "(", "item", ")">>,
     <<";", "drop", "table", "inventory">>}

SelectToks(cols, frm, whr, tail) == <<"select">> \o cols \o <<"from">> \o frm \o whr \o tail

SelectStatements ==
    {SelectToks(c, FromInventory, w, NoTail) : c \in SelectLists, w \in SelectWheres}
    \cup {SelectToks(c, f, w, NoTail) :
            c \in {SelStar, SelTwo}, f \in FromClauses, w \in {NoWhere, WhereItem}}
    \cup {SelectToks(c, FromInventory, w, t) :
            c \in {SelStar, SelTwo}, w \in {NoWhere, WhereItem}, t \in SelectTails}
    \cup {SelectToks(SelComputed(operand), FromInventory, w, NoTail) :
            operand \in Insertions \cup {<<"unit_cost">>}, w \in {NoWhere, WhereItem}}

\* --- UPDATE statements ---
AddStock == <<"quantity_available", "=", "quantity_available", "+", "?">>
SaleSold == <<"quantity_sold", "=", "quantity_sold", "+", "?">>
SaleAvailable == <<"quantity_available", "=", "quantity_available", "-", "?">>

\* the sanctioned increment and decrement assignments
Sanctioned == {AddStock, SaleSold, SaleAvailable}

\* direct overwrites and assignments to the other columns
Unsanctioned ==
    {<<c, "=", "?">> :
        c \in {"quantity_available", "quantity_sold", "unit_cost", "unit_price", "item", "id"}}

SetClauses ==
    Sanctioned \cup Unsanctioned
    \cup {a \o <<",">> \o b : a \in Sanctioned, b \in Sanctioned \cup Unsanctioned}
    \cup {b \o <<",">> \o a : a \in Sanctioned, b \in Unsanctioned}

WhereId == <<"where", "id", "=", "?">>

\* the SET clauses of the add-stock and the record-sale template, the latter in
\* either column order
TemplateSetClauses ==
    {AddStock, SaleSold \o <<",">> \o SaleAvailable, SaleAvailable \o <<",">> \o SaleSold}

UpdateWheres ==
    {NoWhere,
     WhereItem,
     WhereId,
     <<"where", "unit_price", "=", "?">>,
     <<"where", "item", "=", "'x'">>,
     <<"where", "item", "=", "?", "and", "id", "=", "?">>,
     <<"where", "item", "=", "?", "or", "1", "=", "1">>,
     <<"where", "item", "=", "?", "and", "id", "in", "(", "select", "id", "from", "users", ")">>,
     <<"where", "item", "=", "?", ";", "delete", "from", "inventory">>,
     <<"where", "item", "=", "?", ";", "delete", "from", "inventory", ";">>,
     <<"where", "id", "in", "(", "?", ";", "delete", "from", "inventory">>,
     <<"/* where item = ? */">>}

UpdateToks(tbl, setc, whr) == <<"update", tbl, "set">> \o setc \o whr

UpdateStatements ==
    {UpdateToks("inventory", sc, w) : sc \in SetClauses, w \in {NoWhere, WhereItem}}
    \cup {UpdateToks("inventory", sc, w) :
            sc \in {AddStock, SaleSold \o <<",">> \o SaleAvailable}, w \in UpdateWheres}
    \cup {UpdateToks(t, AddStock, w) : t \in {"users", "inventory_backup"}, w \in {NoWhere, WhereItem}}
    \cup {UpdateToks("inventory", sc, w) : sc \in TemplateSetClauses, w \in {WhereItem, WhereId}}

\* --- statements with other verbs, on the inventory table and its columns ---
OtherStatements ==
    {<<"insert", "into", "inventory", "(", "item", ",", "quantity_available", ")",
       "values", "(", "?", ",", "?", ")">>,
     <<"delete", "from", "inventory", "where", "item", "=", "?">>,
     <<"delete", "from", "inventory">>,
     <<"drop", "table", "inventory">>,
     <<"alter", "table", "inventory", "add", "column", "unit_cost">>,
     <<"create", "table", "inventory", "(", "id", ",", "item", ")">>,
     <<"pragma", "table_info", "(", "inventory", ")">>,
     <<"replace", "into", "inventory", "(", "item", ")", "values", "(", "?", ")">>}

\* --- texts that are no statement: empty, white space only, misspelt,
\* unbalanced, with an unterminated string, cut short ---
MalformedStatements ==
    {<<>>,
     <<" ">>,
     <<"\n", "\t">>,
     <<"selec", "*", "frm", "inventory">>,
     <<"(", "(", "(">>,
     <<"select", "'item", "from", "inventory">>,
     <<"select", "from">>,
     <<"update", "inventory", "set">>,
     <<"inventory">>}

Statements == SelectStatements \cup UpdateStatements \cup OtherStatements \cup MalformedStatements

\* every statement in every layout in the usual letter case, and in the other
\* letter cases on one line
Inputs ==
    {[toks |-> t, layout |-> l, cs |-> "std"] : t \in Statements, l \in Layouts}
    \cup {[toks |-> t, layout |-> "sp", cs |-> c] : t \in Statements, c \in Cases}

-----------------------------------------------------------------------------
(* What a statement says, read off its tokens                              *)

Verb(toks) == IF toks = <<>> THEN "" ELSE toks[1]

Positions(toks, t) == {i \in 1..Len(toks) : toks[i] = t}

\* the token at position i names a table: it follows FROM, JOIN, UPDATE, INTO
\* or TABLE, or a comma after a table of a FROM list
RECURSIVE TablePos(_, _)
TablePos(toks, i) ==
    /\ i > 1
    /\ IsIdentTok(toks[i])
    /\ \/ toks[i - 1] \in {"from", "join", "update", "into", "table"}
       \/ toks[i - 1] = "," /\ i > 2 /\ TablePos(toks, i - 2)

FunctionPos(toks, i) == IsIdentTok(toks[i]) /\ i < Len(toks) /\ toks[i + 1] = "("

AliasPos(toks, i) == IsIdentTok(toks[i]) /\ i > 1 /\ toks[i - 1] = "as"

ColumnPos(toks, i) ==
    IsIdentTok(toks[i]) /\ ~TablePos(toks, i) /\ ~FunctionPos(toks, i) /\ ~AliasPos(toks, i)

RefsOtherTable(toks) == \E i \in 1..Len(toks) : TablePos(toks, i) /\ toks[i] # "inventory"

RefsOtherColumn(toks) == \E i \in 1..Len(toks) : ColumnPos(toks, i) /\ toks[i] \notin ALLOWED_COLUMNS

RefsOtherFunction(toks) ==
    \E i \in 1..Len(toks) : FunctionPos(toks, i) /\ toks[i] \notin ALLOWED_FUNCTIONS

\* a statement separator with a further statement after it
Stacked(toks) == \E i \in 1..(Len(toks) - 1) : toks[i] = ";"

\* the pieces of toks between the commas outside parentheses
Depth(toks, i) ==
    Cardinality({j \in 1..(i - 1) : toks[j] = "("}) - Cardinality({j \in 1..(i - 1) : toks[j] = ")"})

TopCommas(toks) == {i \in 1..Len(toks) : toks[i] = "," /\ Depth(toks, i) = 0}

CommaPieces(toks) ==
    LET B == TopCommas(toks) \cup {0, Len(toks) + 1}
    IN  {SubSeq(toks, a + 1, b - 1) :
            <<a, b>> \in {p \in B \X B : p[1] < p[2] /\ ~\E c \in B : p[1] < c /\ c < p[2]}}

\* the select list of a SELECT statement: the tokens before its first FROM
SelectListOf(toks) == SubSeq(toks, 2, Min(Positions(toks, "from")) - 1)

\* the WHERE clause of an UPDATE statement: the tokens after its first WHERE
HasWhere(toks) == Positions(toks, "where") # {}

WhereOf(toks) == SubSeq(toks, Min(Positions(toks, "where")) + 1, Len(toks))

\* the SET clause of an UPDATE statement: the tokens after SET, up to the
\* WHERE clause, a separator or a comment
SetClauseOf(toks) ==
    LET Stops == {i \in 4..Len(toks) : toks[i] \in {"where", ";"} \/ At(toks[i], 1, "/*")}
    IN  SubSeq(toks, 4, IF Stops = {} THEN Len(toks) ELSE Min(Stops) - 1)

HasUnsanctionedAssignment(toks) == \E a \in CommaPieces(SetClauseOf(toks)) : a \notin Sanctioned

\* a SELECT of allowed columns (or *) from inventory, with an optional WHERE
\* clause that compares an allowed column with a placeholder
PlainSelect(toks) ==
    /\ Verb(toks) = "select"
    /\ \E cols \in {SelStar, SelItem, SelTwo} :
       \E c \in ALLOWED_COLUMNS :
           toks \in {SelectToks(cols, FromInventory, w, NoTail) : w \in {NoWhere, <<"where", c, "=", "?">>}}

\* a term of the select list is computed when it holds a parenthesis or an
\* arithmetic operator
IsComputed(term) == \E i \in 1..Len(term) : term[i] \in {"(", ")"} \cup ALLOWED_OPERATORS

ComputedTerms(toks) == {t \in CommaPieces(SelectListOf(toks)) : IsComputed(t)}

WithoutAlias(term) ==
    IF Len(term) > 2 /\ term[Len(term) - 1] = "as" THEN SubSeq(term, 1, Len(term) - 2) ELSE term

\* the fragments of a term: its tokens other than parentheses, commas and
\* operators, the trailing alias left out
Fragments(term) ==
    LET t == WithoutAlias(term)
    IN  {t[i] : i \in {j \in 1..Len(t) : t[j] \notin {"(", ")", ","} \cup ALLOWED_OPERATORS}}

FragmentAllowed(f) == IsDigit(Ch(f, 1)) \/ f \in ALLOWED_COLUMNS \/ f \in ALLOWED_FUNCTIONS

AllFragmentsAllowed(toks) ==
    \A t \in ComputedTerms(toks) : \A f \in Fragments(t) : FragmentAllowed(f)

\* a computed term of the select list holds one of the keywords
\* validate_expressions looks for
HasDenylistedTerm(toks) ==
    \E t \in ComputedTerms(toks) : \E i \in 1..Len(t) : t[i] \in UnsafeWords

\* the statement is an accepted SELECT with the term (unit_price - unit_cost)
\* in which unit_cost was replaced by one of the insertions
IsInsertion(in) ==
    \E operand \in Insertions, w \in {NoWhere, WhereItem} :
        /\ in.toks = SelectToks(SelComputed(operand), FromInventory, w, NoTail)
        /\ validate_sql(Render([in EXCEPT !.toks = SelectToks(SelBare, FromInventory, w, NoTail)]))

-----------------------------------------------------------------------------
(* The request handlers and the database adapter                           *)

NumRequests == 2
InitStock == 2
MaxQuantity == 2

Requests == 1..NumRequests

\* the item names a request may carry; GHOST is not in the table
ItemNames == {"laptop", "Mouse", "ghost"}

InitInventory ==
    [i \in {"LAPTOP", "MOUSE"} |->
        [quantity_available |-> InitStock, quantity_sold |-> 0,
         unit_cost |-> IF i = "LAPTOP" THEN 500 ELSE 10,
         unit_price |-> IF i = "LAPTOP" THEN 800 ELSE 20]]

\* the UPDATE templates process_modification builds
RecordSaleTemplate ==
    "\n            UPDATE inventory \n            SET quantity_sold = quantity_sold + ?, \n                quantity_available = quantity_available - ? \n            WHERE item = ?\n            "

AddStockTemplate ==
    "\n            UPDATE inventory \n            SET quantity_available = quantity_available + ? \n            WHERE item = ?\n            "

\* the queries of check_item_exists, get_item_quantity and of the look at the
\* row after a modification
ExistsQuery == "SELECT 1 FROM inventory WHERE item = ? LIMIT 1"
QuantityQuery == "SELECT quantity_available FROM inventory WHERE item = ? LIMIT 1"
RowQuery == "SELECT * FROM inventory WHERE item = ?"

\* what get_sql_and_chart_info may hand back as the template
Refusals == {"QUERY_UNABLE_TO_GENERATE", "QUERY_UNSAFE"}

GeneratedTemplates ==
    {"SELECT item, quantity_available FROM inventory WHERE item = ?",
     "SELECT item FROM products WHERE item = ?",
     "SELECT * FROM inventory; DROP TABLE inventory",
     "DELETE FROM inventory",
     "UPDATE inventory SET quantity_available = quantity_available + ? WHERE item = ?",
     "UPDATE inventory SET quantity_available = ? WHERE item = ?"}

\* execute_query, line 91: only a text that starts with SELECT is executed
StartsWithSelect(query) == At(Upper(Strip(query)), 1, "SELECT")

\* validate_sql on the templates the handlers meet, evaluated once
TemplateVerdict ==
    [t \in GeneratedTemplates \cup {RecordSaleTemplate, AddStockTemplate} |-> validate_sql(t)]

\* a test of line 91 that lets every statement through
EveryTemplateRuns == [t \in GeneratedTemplates |-> TRUE]

\* execute_query's test of line 91 on the generated templates, evaluated once
TemplateIsSelect == [t \in GeneratedTemplates |-> StartsWithSelect(t)]

IdleRequest ==
    [pc |-> "idle", sql_template |-> "", verdict |-> "none", status |-> "none", modified |-> FALSE]

\* a call of the database adapter: who made it, the function, the statement,
\* whether the statement is the request's template or a fixed query, and the
\* verdict of validate_sql the request held when it made the call
Call(r, fn, statement, origin, verdict) ==
    [req |-> r, fn |-> fn, statement |-> statement, origin |-> origin, verdict |-> verdict]

\* the verdict of validate_sql as the request record keeps it
Verdict(valid) == IF valid THEN "accept" ELSE "reject"

\* process_query, lines 116-117: "if not validate_sql(sql_template): raise"
ValidationNeverRaises(valid) == FALSE

ValidationRaises(valid) == ~valid

\* process_modification, lines 331-335
ModificationValidationRaises(valid) == ~valid

\* a record-sale UPDATE that forgets the sold count
SaleWithoutSoldCount(inv, action_type, item_name, quantity) ==
    IF item_name \notin DOMAIN inv THEN inv
    ELSE IF action_type = "record_sale"
    THEN [inv EXCEPT ![item_name].quantity_available = @ - quantity]
    ELSE [inv EXCEPT ![item_name].quantity_available = @ + quantity]

\* the two UPDATE templates of lines 313-327 with their parameters, applied to
\* the row WHERE item = item_name
ApplyModification(inv, action_type, item_name, quantity) ==
    IF item_name \notin DOMAIN inv THEN inv
    ELSE IF action_type = "record_sale"
    THEN [inv EXCEPT ![item_name].quantity_sold = @ + quantity,
                     ![item_name].quantity_available = @ - quantity]
    ELSE [inv EXCEPT ![item_name].quantity_available = @ + quantity]

\* the steps of execute_modification that can fail: get_db_connection, BEGIN
\* TRANSACTION, the statement, the commit
FailPoints == {"none", "connect", "begin", "execute", "commit"}

\* no transaction: execute_modification was not called
NoTransaction ==
    [fail_at |-> "none", connected |-> FALSE, committed |-> FALSE, rolled_back |-> FALSE]

\* an error handler without rollback
NeverRollsBack(fail_at) == FALSE

\* db.py lines 160-173: both except clauses roll back when there is a
\* connection
RollsBack(fail_at) == fail_at \notin {"none", "connect"}

\* execute_modification, db.py lines 125-178: the transaction, what it leaves
\* in the table, and what it returns
execute_modification(inv, action_type, item_name, quantity, fail_at) ==
    LET committed == fail_at = "none"
        executed == fail_at \in {"none", "commit"}
    IN  [txn |-> [fail_at |-> fail_at, connected |-> fail_at # "connect",
                  committed |-> committed, rolled_back |-> RollsBack(fail_at)],
         inventory |-> IF committed THEN ApplyModification(inv, action_type, item_name, quantity)
                       ELSE inv,
         rows_affected |-> IF executed /\ item_name \in DOMAIN inv THEN 1 ELSE 0,
         error_message |-> IF committed THEN "none" ELSE "Database error"]

\* a stock check that lets every sale through
StockNeverChecked(available_quantity, quantity) == FALSE

\* api.py line 306
InsufficientStock(available_quantity, quantity) == available_quantity < quantity

\* line 282: the item names in upper case, evaluated once
UpperName == [n \in ItemNames |-> Upper(n)]

\* before process_modification was called
NoModification ==
    [action_type |-> "none", item_name |-> "", quantity |-> 0, exists_check_failed |-> FALSE,
     before |-> InitInventory, inventory |-> InitInventory, status |-> "none",
     error |-> "none", modified |-> FALSE, sql_template |-> "", verdict |-> "none",
     called |-> {}, executed |-> FALSE, txn |-> NoTransaction]

\* process_modification, api.py lines 266-394, on the table inv: the response,
\* the table after it and the database calls made.  valid is what validate_sql
\* says of the template built; fail_exists, fail_quantity and fail_row say
\* that the query of check_item_exists, get_item_quantity or of the look at the
\* row fails, fail_at where execute_modification fails.
process_modification(inv, action_type, sql_template, valid, name, quantity, fail_exists, fail_quantity, fail_at, fail_row) ==
    LET item_name == UpperName[name]
        exists == ~fail_exists /\ item_name \in DOMAIN inv
        available_quantity ==
            IF fail_quantity \/ item_name \notin DOMAIN inv THEN 0
            ELSE inv[item_name].quantity_available
        outcome == execute_modification(inv, action_type, item_name, quantity, fail_at)
        c_exists == [fn |-> "execute_query", statement |-> ExistsQuery, origin |-> "fixed",
                     verdict |-> "none"]
        c_quantity == [fn |-> "execute_query", statement |-> QuantityQuery, origin |-> "fixed",
                       verdict |-> "none"]
        c_update == [fn |-> "execute_modification", statement |-> sql_template,
                     origin |-> "template", verdict |-> Verdict(valid)]
        c_row == [fn |-> "execute_query", statement |-> RowQuery, origin |-> "fixed",
                  verdict |-> Verdict(valid)]
        checks == IF action_type = "record_sale" THEN {c_exists, c_quantity} ELSE {c_exists}
        response(template, v, status, error, modified, called) ==
            [action_type |-> action_type, item_name |-> item_name, quantity |-> quantity,
             exists_check_failed |-> fail_exists, before |-> inv,
             inventory |-> IF c_update \in called THEN outcome.inventory ELSE inv,
             status |-> status, error |-> error, modified |-> modified,
             sql_template |-> template, verdict |-> v, called |-> called,
             executed |-> c_update \in called,
             txn |-> IF c_update \in called THEN outcome.txn ELSE NoTransaction]
    IN  IF ~exists
        THEN \* lines 297-301
             response("", "none", "error", "not found in inventory", FALSE, {c_exists})
        ELSE IF action_type = "record_sale" /\ InsufficientStock(available_quantity, quantity)
        THEN \* lines 304-310
             response("", "none", "error", "Cannot record sale", FALSE, checks)
        ELSE IF ModificationValidationRaises(valid)
        THEN \* lines 331-335
             response(sql_template, Verdict(valid), "error", "SQL validation failed", FALSE, checks)
        ELSE IF outcome.error_message # "none"
        THEN \* lines 338-343: execute_modification reports the error
             response(sql_template, Verdict(valid), "error", outcome.error_message, FALSE,
                      checks \cup {c_update})
        ELSE IF fail_row
        THEN \* lines 350-364: the UPDATE is committed and reading the row fails
             response(sql_template, Verdict(valid), "error", "Database query failed", TRUE,
                      checks \cup {c_update, c_row})
        ELSE response(sql_template, Verdict(valid), "success", "none", TRUE,
                      checks \cup {c_update, c_row})

\* process_query, lines 59-89: the request is received and waits for
\* get_modification_intent
Receive(r) ==
    /\ req[r].pc = "idle"
    /\ req' = [req EXCEPT ![r].pc = "await_intent"]
    /\ UNCHANGED <<inventory, calls, validatorVars, modVars, unitVars>>

\* lines 87-104: no modification intent; the request waits for
\* get_sql_and_chart_info
IntentNone(r) ==
    /\ req[r].pc = "await_intent"
    /\ req' = [req EXCEPT ![r].pc = "await_sql"]
    /\ UNCHANGED <<inventory, calls, validatorVars, modVars, unitVars>>

\* lines 91-98: process_query hands the request to process_modification (which
\* awaits nothing) and returns its response; of execute_modification it sees
\* only whether an error was reported
ProcessModification(r, action_type, sql_template, valid, name, quantity, fail_exists, fail_quantity, fail_at, fail_row) ==
    LET response == process_modification(inventory, action_type, sql_template, valid, name,
                                         quantity, fail_exists, fail_quantity, fail_at, fail_row)
    IN  /\ req' = [req EXCEPT ![r] =
                      [pc |-> "done", sql_template |-> response.sql_template,
                       verdict |-> response.verdict, status |-> response.status,
                       modified |-> response.modified]]
        /\ calls' = calls \cup {Call(r, c.fn, c.statement, c.origin, c.verdict) :
                                    c \in response.called}
        /\ inventory' = response.inventory

IntentModification(r) ==
    /\ req[r].pc = "await_intent"
    /\ \E action_type \in {"record_sale", "add_stock"} :
           LET sql_template ==
                   IF action_type = "record_sale" THEN RecordSaleTemplate ELSE AddStockTemplate
               valid == TemplateVerdict[sql_template]
           IN  \E name \in ItemNames, quantity \in 1..MaxQuantity,
                  fail_exists \in BOOLEAN, fail_quantity \in BOOLEAN,
                  fail_at \in {"none", "execute"}, fail_row \in BOOLEAN :
                   ProcessModification(r, action_type, sql_template, valid, name, quantity,
                                       fail_exists, fail_quantity, fail_at, fail_row)
    /\ UNCHANGED <<validatorVars, modVars, unitVars>>

\* lines 100-111 when get_sql_and_chart_info hands back no template or a
\* refusal: the request answers with an error and nothing is validated or run
SqlRefused(r) ==
    /\ req[r].pc = "await_sql"
    /\ \E t \in Refusals \cup {""} :
           req' = [req EXCEPT ![r] = [pc |-> "done", sql_template |-> t, verdict |-> "none",
                                      status |-> "error", modified |-> FALSE]]
    /\ UNCHANGED <<inventory, calls, validatorVars, modVars, unitVars>>

\* lines 100-236 and 242-264 when get_sql_and_chart_info hands back a template:
\* validation, execution and the choice of the response.  db_fails says that
\* the database call fails, rows that the query returned rows, chart that a
\* chart was asked for, image that the chart could be drawn and written.
SqlGenerated(r) ==
    /\ req[r].pc = "await_sql"
    /\ \E sql_template \in GeneratedTemplates :
           LET valid == TemplateVerdict[sql_template]
               select == TemplateIsSelect[sql_template]
               c == Call(r, "execute_query", sql_template, "template", Verdict(valid))
               answer(pc, status) ==
                   req' = [req EXCEPT ![r] = [pc |-> pc, sql_template |-> sql_template,
                                              verdict |-> Verdict(valid), status |-> status,
                                              modified |-> FALSE]]
           IN  IF ValidationRaises(valid)
               THEN \* line 117 raises, lines 243-264 answer
                    /\ answer("done", "error")
                    /\ UNCHANGED calls
               ELSE /\ calls' = calls \cup {c}
                    /\ \E db_fails \in BOOLEAN, rows \in BOOLEAN, chart \in BOOLEAN,
                          image \in BOOLEAN :
                           IF ~select \/ db_fails
                           THEN \* execute_query raises ValueError, lines 126-129
                                answer("done", "error")
                           ELSE IF chart /\ ~rows
                           THEN \* lines 134-137: nothing to plot
                                answer("done", "warning")
                           ELSE IF chart
                           THEN \* lines 138-200: the chart is drawn and written,
                                \* or reading the missing image raises
                                answer("done", IF image THEN "success" ELSE "error")
                           ELSE \* lines 211-220: wait for get_ai_explanation
                                answer("await_explanation", "success")
    /\ UNCHANGED <<inventory, validatorVars, modVars, unitVars>>

\* lines 218-236: the explanation arrived and the request answers
ExplanationReturns(r) ==
    /\ req[r].pc = "await_explanation"
    /\ req' = [req EXCEPT ![r].pc = "done"]
    /\ UNCHANGED <<inventory, calls, validatorVars, modVars, unitVars>>

\* the outcome of one call of a function of app/db.py: what it was given, what
\* it bound, how far the connection got and what the caller receives
DbCall(fn, sql_template, params, bound, fail_at, connected, closed, committed, rolled_back, rows_affected, error_message, raises) ==
    [fn |-> fn, sql |-> sql_template, params |-> params, bound |-> bound, fail_at |-> fail_at,
     connected |-> connected, closed |-> closed, committed |-> committed,
     rolled_back |-> rolled_back, rows_affected |-> rows_affected,
     error_message |-> error_message, raised |-> raises]

\* before any function of app/db.py was called
NoDbCall ==
    DbCall("none", "", <<>>, <<>>, "none", FALSE, FALSE, FALSE, FALSE, 0, "none", FALSE)

\* before any function of app/ai_processing.py was called
NoAiCall == [fn |-> "none"]

\* before process_query ran on a generated template
NoQuery == [status |-> "none"]

\* api.py line 23
MAX_HISTORY_TURNS == 5

\* the number of requests of one session over a behaviour
MaxTurns == 7

\* the list objects of one session: the one conversation_histories holds and
\* the ones only requests under way still refer to
Objects == 1..(NumRequests + 1)

\* a request of the session that is not under way
IdleSlot == [pc |-> "idle", turn |-> 0, history |-> 0, limited |-> <<>>]

\* the session is not in conversation_histories (stored = 0), no list holds a
\* message, no request is under way, no turn was answered
NoHistory ==
    [stored |-> 0, heap |-> [o \in Objects |-> <<>>], slot |-> [r \in Requests |-> IdleSlot],
     next |-> 1, answered |-> <<>>]

ApiInit ==
    /\ q = [toks |-> <<>>, layout |-> "sp", cs |-> "std"]
    /\ sql = ""
    /\ call = "none"
    /\ result = FALSE
    /\ exprs = <<>>
    /\ fault = FALSE
    /\ raised = FALSE
    /\ schema = StaticSchema
    /\ verdicts = <<>>
    /\ inventory = InitInventory
    /\ req = [r \in Requests |-> IdleRequest]
    /\ calls = {}
    /\ mod = NoModification
    /\ modCount = 0
    /\ db = NoDbCall
    /\ ai = NoAiCall
    /\ pq = NoQuery
    /\ hist = NoHistory

ApiNext ==
    \E r \in Requests :
        \/ Receive(r)
        \/ IntentNone(r)
        \/ IntentModification(r)
        \/ SqlRefused(r)
        \/ SqlGenerated(r)
        \/ ExplanationReturns(r)

SpecApi == ApiInit /\ [][ApiNext]_vars

-----------------------------------------------------------------------------
(* Calls of process_modification, one after the other                      *)

MaxModifications == 2

ModInit == ApiInit

CallProcessModification ==
    /\ modCount < MaxModifications
    /\ \E action_type \in {"record_sale", "add_stock"} :
           LET sql_template ==
                   IF action_type = "record_sale" THEN RecordSaleTemplate ELSE AddStockTemplate
               valid == TemplateVerdict[sql_template]
           IN  \E name \in ItemNames, quantity \in 1..MaxQuantity,
                  fail_exists \in BOOLEAN, fail_quantity \in BOOLEAN,
                  fail_at \in FailPoints, fail_row \in BOOLEAN :
                   /\ mod' = process_modification(inventory, action_type, sql_template, valid,
                                                  name, quantity, fail_exists, fail_quantity,
                                                  fail_at, fail_row)
                   /\ inventory' = mod'.inventory
    /\ modCount' = modCount + 1
    /\ UNCHANGED <<req, calls, validatorVars, unitVars>>

ModNext == CallProcessModification

SpecMod == ModInit /\ [][ModNext]_vars

-----------------------------------------------------------------------------
(* Calls of the validator                                                  *)

ValidatorInit ==
    /\ q \in Inputs
    /\ sql = Render(q)
    /\ call = "none"
    /\ result = FALSE
    /\ exprs = <<>>
    /\ fault = FALSE
    /\ raised = FALSE
    /\ schema = StaticSchema
    /\ verdicts = <<>>
    /\ inventory = InitInventory
    /\ req = [r \in Requests |-> IdleRequest]
    /\ calls = {}
    /\ mod = NoModification
    /\ modCount = 0
    /\ db = NoDbCall
    /\ ai = NoAiCall
    /\ pq = NoQuery
    /\ hist = NoHistory

\* the number of calls of validate_sql on one text
MaxCalls == 2

CallValidateSql ==
    /\ call = "none"
    /\ call' = "validate_sql"
    /\ result' \in VerdictsUnder(schema, sql)
    /\ verdicts' = Append(verdicts, result')
    /\ schema' = GlobalsAfterCall(schema)
    /\ UNCHANGED <<q, sql, exprs, fault, raised, apiVars, modVars, unitVars>>

\* a further call of validate_sql on the same text
RepeatValidateSql ==
    /\ call = "validate_sql"
    /\ ~fault
    /\ Len(verdicts) < MaxCalls
    /\ result' \in VerdictsUnder(schema, sql)
    /\ verdicts' = Append(verdicts, result')
    /\ schema' = GlobalsAfterCall(schema)
    /\ UNCHANGED <<q, sql, call, exprs, fault, raised, apiVars, modVars, unitVars>>

\* a call of validate_sql during which sqlparse or a later step raises an
\* exception: the empty text returns at line 26 before anything can raise, any
\* other text is inside the try block of lines 28-217
CallValidateSqlRaising ==
    /\ call = "none"
    /\ sql # ""
    /\ call' = "validate_sql"
    /\ fault' = TRUE
    /\ raised' = ExceptionReachesCaller(sql)
    /\ result' = FALSE
    /\ schema' = GlobalsAfterCall(schema)
    /\ UNCHANGED <<q, sql, exprs, verdicts, apiVars, modVars, unitVars>>

CallValidateUpdateStatement ==
    /\ call = "none"
    /\ call' = "validate_update_statement"
    /\ result' = validate_update_statement(sql)
    /\ schema' = GlobalsAfterCall(schema)
    /\ UNCHANGED <<q, sql, exprs, fault, raised, verdicts, apiVars, modVars, unitVars>>

\* the computed terms of the statement's select list, as text
ExpressionTexts(in) ==
    {RenderToks(t, in.layout, in.cs) : t \in ComputedTerms(in.toks)}

\* validate_expressions is called with the computed terms in some order
CallValidateExpressions ==
    /\ call = "none"
    /\ Verb(q.toks) = "select"
    /\ ExpressionTexts(q) # {}
    /\ \E list \in [1..Cardinality(ExpressionTexts(q)) -> ExpressionTexts(q)] :
           /\ \A e \in ExpressionTexts(q) : \E k \in DOMAIN list : list[k] = e
           /\ exprs' = list
           /\ result' = validate_expressions(list)
    /\ call' = "validate_expressions"
    /\ schema' = GlobalsAfterCall(schema)
    /\ UNCHANGED <<q, sql, fault, raised, verdicts, apiVars, modVars, unitVars>>

Init == ValidatorInit

Next ==
    \/ CallValidateSql
    \/ RepeatValidateSql
    \/ CallValidateSqlRaising
    \/ CallValidateUpdateStatement
    \/ CallValidateExpressions

Spec == Init /\ [][Next]_vars
-----------------------------------------------------------------------------
(* Properties of the validator                                             *)

\* f was called and ran without an internal error
Called(f) == call = f /\ ~fault

\* C1: a SELECT or UPDATE statement that references a table other than
\* inventory (alone, or next to inventory through a JOIN, a FROM list, a UNION
\* branch or a subquery) is rejected by validate_sql.
C1_OtherTableRejected ==
    (/\ Called("validate_sql")
     /\ Verb(q.toks) \in {"select", "update"}
     /\ RefsOtherTable(q.toks)) => result = FALSE

\* C2: an UPDATE whose SET clause holds an assignment other than the sanctioned
\* increments and decrements is rejected by validate_sql, also when a
\* sanctioned assignment stands next to it.
C2_UnsanctionedAssignmentRejected ==
    (/\ Called("validate_sql")
     /\ Verb(q.toks) = "update"
     /\ HasUnsanctionedAssignment(q.toks)) => result = FALSE

\* C3: validate_sql accepts an UPDATE only if its WHERE clause is exactly the
\* single predicate item = ? or id = ?.
C3_WhereIsIdentityOnly ==
    (/\ Called("validate_sql")
     /\ Verb(q.toks) = "update"
     /\ result = TRUE)
        => /\ HasWhere(q.toks)
           /\ WhereOf(q.toks) \in {<<"item", "=", "?">>, <<"id", "=", "?">>}

\* C4: an UPDATE statement without a WHERE clause is rejected by validate_sql
\* and by validate_update_statement, whatever its SET clause is.
C4_NoWhereRejected ==
    (/\ Called("validate_sql") \/ Called("validate_update_statement")
     /\ Verb(q.toks) = "update"
     /\ ~HasWhere(q.toks)) => result = FALSE

\* C5: a text in which a statement separator is followed by a second
\* statement is rejected by validate_sql.
C5_StackedRejected ==
    (Called("validate_sql") /\ Stacked(q.toks)) => result = FALSE

\* C7: a SELECT or UPDATE statement that references a column outside the six
\* inventory columns or a function outside the six allowed functions, in any
\* clause, is rejected by validate_sql.
C7_OtherColumnOrFunctionRejected ==
    (/\ Called("validate_sql")
     /\ Verb(q.toks) \in {"select", "update"}
     /\ RefsOtherColumn(q.toks) \/ RefsOtherFunction(q.toks)) => result = FALSE

\* C8: validate_sql returns False for every statement whose verb is not
\* SELECT or UPDATE, even when it names only inventory and its columns.
C8_OtherVerbRejected ==
    (Called("validate_sql") /\ Verb(q.toks) \notin {"select", "update"}) => result = FALSE

C8_Witness ==
    /\ Called("validate_sql")
    /\ q.toks = <<"delete", "from", "inventory", "where", "item", "=", "?">>
    /\ ~RefsOtherTable(q.toks)
    /\ ~RefsOtherColumn(q.toks)
    /\ result = FALSE

\* C9: a SELECT of allowed columns (or *) from inventory with an optional
\* placeholder-bound WHERE clause is accepted by validate_sql in every letter
\* case and every white-space layout.
C9_PlainSelectAccepted ==
    (Called("validate_sql") /\ PlainSelect(q.toks)) => result = TRUE

\* C10: a computed SELECT term is accepted only if each of its fragments is a
\* numeric literal, an allowed column or an allowed function; the profit
\* example is accepted, and a term with another bare word makes validate_sql
\* and validate_expressions return False.
C10_ComputedTermFragments ==
    /\ (/\ Called("validate_sql") \/ Called("validate_expressions")
        /\ Verb(q.toks) = "select"
        /\ ~AllFragmentsAllowed(q.toks)) => result = FALSE
    /\ (/\ Called("validate_sql")
        /\ sql = "SELECT item, (unit_price - unit_cost) AS profit_per_unit FROM inventory")
            => result = TRUE

\* C11: putting a CASE expression, a UNION, a nested SELECT ... FROM or
\* ;DROP TABLE into a computed term of an accepted SELECT makes validate_sql
\* return False, and validate_expressions returns False for every list in
\* which an expression holds a denylisted keyword, in any letter case.
C11_DenylistRejects ==
    /\ (Called("validate_sql") /\ IsInsertion(q)) => result = FALSE
    /\ (Called("validate_expressions") /\ HasDenylistedTerm(q.toks)) => result = FALSE

\* C12: validate_sql accepts the add-stock template and the record-sale
\* template (in either column order), each with WHERE item = ? or WHERE id = ?,
\* on one line, spread over several lines, and in the very text
\* process_modification builds.
C12_TemplatesAccepted ==
    /\ (/\ Called("validate_sql")
        /\ \E sc \in TemplateSetClauses, w \in {WhereItem, WhereId} :
               q.toks = UpdateToks("inventory", sc, w)) => result = TRUE
    /\ TemplateVerdict[RecordSaleTemplate]
    /\ TemplateVerdict[AddStockTemplate]

C12_Witness ==
    /\ Called("validate_sql")
    /\ q.toks = UpdateToks("inventory", SaleAvailable \o <<",">> \o SaleSold, WhereId)
    /\ q.layout = "indent"
    /\ result = TRUE

\* C13: the SET clause of an UPDATE that validate_sql accepts is the
\* record-sale pair (both assignments) or the add-stock assignment alone; an
\* UPDATE whose SET clause is only one of the two record-sale assignments is
\* rejected.
C13_SetClauseIsOneOfTwoPatterns ==
    /\ (/\ Called("validate_sql")
        /\ Verb(q.toks) = "update"
        /\ result = TRUE) => SetClauseOf(q.toks) \in TemplateSetClauses
    /\ (/\ Called("validate_sql")
        /\ \E sc \in {SaleSold, SaleAvailable}, w \in {WhereItem, WhereId} :
               q.toks = UpdateToks("inventory", sc, w)) => result = FALSE

\* C14: validate_sql accepts UPDATE inventory SET quantity_available =
\* quantity_available - ? WHERE item = ?, the UPDATE whose SET clause is the
\* single decrement of quantity_available, written on one line in any letter
\* case.
C14_SingleDecrementAccepted ==
    (/\ Called("validate_sql")
     /\ q.toks = UpdateToks("inventory", SaleAvailable, WhereItem)
     /\ q.layout \in {"sp", "sp2", "tight"}) => result = TRUE

C14_Witness ==
    /\ Called("validate_sql")
    /\ sql = "UPDATE inventory SET quantity_available = quantity_available - ? WHERE item = ?"
    /\ result = TRUE

C17_NotUpdateInventoryRejected ==
    (/\ Called("validate_update_statement")
     /\ ~(Len(q.toks) >= 2 /\ q.toks[1] = "update" /\ q.toks[2] = "inventory"))
        => result = FALSE

C17_Witness ==
    /\ Called("validate_update_statement")
    /\ q.toks = UpdateToks("inventory_backup", AddStock, WhereItem)
    /\ q.cs = "upper"
    /\ result = FALSE
-----------------------------------------------------------------------------
(* Properties of the request handlers                                      *)

\* C6: process_query and process_modification obtain the verdict of
\* validate_sql on the request's template before they execute it; neither
\* execute_query nor execute_modification is called with a template that
\* validate_sql rejected, and a request whose template was rejected answers
\* with an error and has not changed the table.
C6_ValidatedBeforeExecuted ==
    /\ \A c \in calls : c.origin = "template" => c.verdict = "accept"
    /\ \A r \in Requests :
           req[r].verdict = "reject" =>
               /\ req[r].pc = "done"
               /\ req[r].status = "error"
               /\ ~req[r].modified
               /\ ~\E c \in calls : c.req = r /\ c.statement = req[r].sql_template

C6_Witness ==
    /\ \E r \in Requests :
           /\ req[r].pc = "done"
           /\ req[r].verdict = "reject"
           /\ req[r].status = "error"
    /\ \E c \in calls : c.origin = "template" /\ c.verdict = "accept"
-----------------------------------------------------------------------------
(* Properties of process_modification and execute_modification             *)

\* C18: when process_modification answers a record_sale of n units with
\* status success, the item had at least n units and its row has n units less
\* available and n units more sold; for add_stock the row has n units more
\* available; every other row and column is as before the call.
C18_ExactDelta ==
    mod.status = "success" =>
        LET item == mod.item_name
            n == mod.quantity
        IN  /\ item \in DOMAIN mod.before
            /\ mod.action_type = "record_sale" =>
                   /\ mod.before[item].quantity_available >= n
                   /\ inventory = [mod.before EXCEPT ![item].quantity_available = @ - n,
                                                     ![item].quantity_sold = @ + n]
            /\ mod.action_type = "add_stock" =>
                   inventory = [mod.before EXCEPT ![item].quantity_available = @ + n]

C18_Witness ==
    /\ mod.status = "success"
    /\ mod.action_type = "record_sale"
    /\ mod.item_name = "LAPTOP"
    /\ mod.quantity = MaxQuantity
    /\ inventory["LAPTOP"].quantity_sold = mod.before["LAPTOP"].quantity_sold + MaxQuantity
    /\ inventory["LAPTOP"].quantity_available =
           mod.before["LAPTOP"].quantity_available - MaxQuantity
    /\ inventory["LAPTOP"].unit_price = mod.before["LAPTOP"].unit_price
    /\ inventory["MOUSE"] = mod.before["MOUSE"]

\* the item of the latest call is not in the table
ItemMissing == mod.action_type # "none" /\ mod.item_name \notin DOMAIN mod.before

\* the latest call is a sale of more units than the item has
StockShort ==
    /\ mod.action_type = "record_sale"
    /\ mod.item_name \in DOMAIN mod.before
    /\ mod.before[mod.item_name].quantity_available < mod.quantity

C20_CommitOrRollback ==
    (mod.executed /\ mod.txn.connected) =>
        /\ mod.txn.committed # mod.txn.rolled_back
        /\ mod.txn.committed <=> mod.txn.fail_at = "none"
        /\ mod.txn.rolled_back <=> mod.txn.fail_at # "none"
        /\ ~mod.txn.committed => inventory = mod.before /\ ~mod.modified

C20_Witness ==
    /\ mod.executed
    /\ mod.txn.fail_at = "commit"
    /\ mod.txn.rolled_back
    /\ ~mod.txn.committed
    /\ inventory = mod.before
    /\ modCount = MaxModifications

(***************************************************************************)
(* app/db.py called directly: execute_modification, execute_query and      *)
(* init_db on one connection each.                                         *)
(***************************************************************************)

\* the longest parameter tuple handed to a function of db.py
MaxParams == 3

\* a parameter: a Python int or a Python str
IntParam(n) == [type |-> "int", s |-> "", n |-> n]
StrParam(s) == [type |-> "str", s |-> s, n |-> 0]
ParamValues == {IntParam(1), IntParam(2), StrParam("laptop"), StrParam("Mouse")}
ParamLists == UNION {[1..n -> ParamValues] : n \in 0..MaxParams}

\* upper-casing applied to every string of the tuple
UppercasesEveryString(params) ==
    [i \in 1..Len(params) |->
        IF params[i].type = "str" THEN [params[i] EXCEPT !.s = Upper(@)] ELSE params[i]]

\* db.py lines 139-144: a non-empty tuple whose last element is a str gets
\* that element replaced by its upper() form
BoundParams(params) ==
    IF params # <<>> /\ params[Len(params)].type = "str"
    THEN [params EXCEPT ![Len(params)].s = Upper(@)]
    ELSE params

\* the number of ? placeholders of a statement
Placeholders(statement) ==
    Cardinality({i \in 1..Len(statement) : Ch(statement, i) = "?"})

ModificationTemplates == {RecordSaleTemplate, AddStockTemplate}
DbQueries == {ExistsQuery, QuantityQuery, RowQuery, RecordSaleTemplate}
PlaceholderCount == [t \in ModificationTemplates \cup DbQueries |-> Placeholders(t)]
QueryIsSelect == [t \in DbQueries |-> StartsWithSelect(t)]

\* cursor.execute raises sqlite3.ProgrammingError when the number of bound
\* values differs from the number of placeholders: the step that fails
FailingStep(fail_at, statement, bound) ==
    IF fail_at \in {"connect", "begin"} THEN fail_at
    ELSE IF Len(bound) # PlaceholderCount[statement] THEN "execute"
    ELSE fail_at

\* the row a statement ending in WHERE item = ? matches
MatchesRow(bound) ==
    /\ bound # <<>>
    /\ bound[Len(bound)].type = "str"
    /\ bound[Len(bound)].s \in DOMAIN InitInventory

\* what a committed template leaves in the table: the placeholders take the
\* bound values in order, the last one selects the row; a string in place of
\* a number counts as 0 in SQLite arithmetic
ApplyTemplate(inv, sql_template, bound) ==
    IF ~MatchesRow(bound) THEN inv
    ELSE LET item == bound[Len(bound)].s
         IN  IF sql_template = RecordSaleTemplate
             THEN [inv EXCEPT ![item].quantity_sold = @ + bound[1].n,
                              ![item].quantity_available = @ - bound[2].n]
             ELSE [inv EXCEPT ![item].quantity_available = @ + bound[1].n]

\* a finally clause that runs on the success path only
ClosesOnSuccessOnly(connected, failed) == connected /\ ~failed

\* db.py lines 80-82, 121-123, 174-176: finally: if conn: conn.close()
Closes(connected, failed) == connected

\* execute_modification, db.py lines 125-178, on a parameter tuple
ExecuteModification(sql_template, params, fail_at) ==
    LET bound == BoundParams(params)
        at == FailingStep(fail_at, sql_template, bound)
        connected == at # "connect"
        executed == at \in {"none", "commit"}
    IN  DbCall("execute_modification", sql_template, params, bound, at,
               connected, Closes(connected, at # "none"), at = "none", RollsBack(at),
               IF executed /\ MatchesRow(bound) THEN 1 ELSE 0,
               IF at = "none" THEN "none"
               ELSE IF at = "connect" THEN "Unexpected error during modification"
               ELSE "Database error during modification",
               FALSE)

\* the steps of execute_query that can fail
QueryFailPoints == {"none", "connect", "execute"}

\* execute_query, db.py lines 85-123: a statement that does not start with
\* SELECT raises before a connection exists; every other failure is raised
\* again as ValueError after the finally clause
ExecuteQuery(query, params, fail_at) ==
    IF ~QueryIsSelect[query]
    THEN DbCall("execute_query", query, params, <<>>, "refused",
                FALSE, FALSE, FALSE, FALSE, 0, "Only SELECT queries are allowed", TRUE)
    ELSE LET at == FailingStep(fail_at, query, params)
             connected == at # "connect"
         IN  DbCall("execute_query", query, params, params, at,
                    connected, Closes(connected, at # "none"), FALSE, FALSE, 0,
                    IF at = "none" THEN "none" ELSE "Database query failed", at # "none")

\* the steps of init_db that can fail
InitFailPoints == {"none", "connect", "create", "count", "insert", "commit"}

\* init_db, db.py lines 34-82: both except clauses log and return
init_db(fail_at) ==
    LET connected == fail_at # "connect"
    IN  DbCall("init_db", "CREATE TABLE IF NOT EXISTS inventory", <<>>, <<>>, fail_at,
               connected, Closes(connected, fail_at # "none"), fail_at = "none", FALSE, 0,
               IF fail_at = "none" THEN "none" ELSE "Error during database initialization",
               FALSE)

DbInit == ApiInit

\* each call opens its own connection and keeps nothing for the next one:
\* a behaviour is one call on the freshly initialised table
CallExecuteModification ==
    \E sql_template \in ModificationTemplates, params \in ParamLists, fail_at \in FailPoints :
        /\ db.fn = "none"
        /\ db' = ExecuteModification(sql_template, params, fail_at)
        /\ inventory' = IF db'.committed
                        THEN ApplyTemplate(inventory, sql_template, db'.bound)
                        ELSE inventory
        /\ UNCHANGED <<validatorVars, req, calls, modVars, ai, pq, hist>>

CallExecuteQuery ==
    \E query \in DbQueries, params \in ParamLists, fail_at \in QueryFailPoints :
        /\ db.fn = "none"
        /\ db' = ExecuteQuery(query, params, fail_at)
        /\ UNCHANGED <<validatorVars, apiVars, modVars, ai, pq, hist>>

CallInitDb ==
    \E fail_at \in InitFailPoints :
        /\ db.fn = "none"
        /\ db' = init_db(fail_at)
        /\ UNCHANGED <<validatorVars, apiVars, modVars, ai, pq, hist>>

DbNext == CallExecuteModification \/ CallExecuteQuery \/ CallInitDb

SpecDb == DbInit /\ [][DbNext]_vars

\* C21: execute_modification never raises; whenever it did not commit it
\* returns rows_affected = 0 with an error message, and it returns no error
\* only when the modification was committed.
C21_FailureReturnsZeroRows ==
    db.fn = "execute_modification" =>
        /\ ~db.raised
        /\ ~db.committed => (db.rows_affected = 0 /\ db.error_message # "none")
        /\ db.error_message = "none" => db.committed

\* C22: the tuple bound to the statement has the length and order of the
\* tuple given; only a last element that is a string differs, by being
\* upper-cased.
C22_OnlyLastStringUppercased ==
    db.fn = "execute_modification" =>
        /\ Len(db.bound) = Len(db.params)
        /\ \A i \in 1..Len(db.params) :
              IF i = Len(db.params) /\ db.params[i].type = "str"
              THEN db.bound[i] = StrParam(Upper(db.params[i].s))
              ELSE db.bound[i] = db.params[i]

\* a tuple with a mixed-case string before the last place and a string last
C22_Witness ==
    /\ db.fn = "execute_modification"
    /\ db.params = <<StrParam("Mouse"), IntParam(2), StrParam("laptop")>>
    /\ db.bound = <<StrParam("Mouse"), IntParam(2), StrParam("LAPTOP")>>

\* C30: a call of execute_query, execute_modification or init_db that
\* obtained a connection has closed it when it returns or raises.
C30_ConnectionClosed ==
    db.fn # "none" => (db.connected => db.closed)

\* a query that raised from its statement, with the connection closed
C30_Witness ==
    /\ db.fn = "execute_query"
    /\ db.fail_at = "execute"
    /\ db.raised
    /\ db.connected
    /\ db.closed

(***************************************************************************)
(* app/ai_processing.py: what get_modification_intent and                  *)
(* get_sql_and_chart_info make of the model's reply.                       *)
(***************************************************************************)

\* how a call of the OpenAI client can end: no client configured, the call
\* raises, the content is not JSON, the content is a JSON object
ReplyKinds == {"no_client", "client_error", "unparsable", "json"}

\* JSON numbers are kept in tenths (quantity) and hundredths (confidence)
Tenths == 10
CONFIDENCE_THRESHOLD == 70

\* values of the "quantity" key: 2, 0, -1, 0.5, 2.5, "two", null
QuantityValues ==
    {[type |-> "int", tenths |-> 20], [type |-> "int", tenths |-> 0],
     [type |-> "int", tenths |-> -10], [type |-> "float", tenths |-> 5],
     [type |-> "float", tenths |-> 25], [type |-> "str", tenths |-> 0],
     [type |-> "null", tenths |-> 0]}

\* values of the "confidence" key: 0.5, 0.69, 0.7, 0.95, null
ConfidenceValues ==
    {[type |-> "num", hundredths |-> h] : h \in {50, 69, 70, 95}}
        \cup {[type |-> "null", hundredths |-> 0]}

IntentActionTypes == {"record_sale", "add_stock", "not_modification", "delete_item"}

\* values of the "item_name" key: a name, or null / the empty string
IntentItemNames == {"laptop", ""}

IntentReplies ==
    [kind : {"json"}, action_type : IntentActionTypes, item_name : IntentItemNames,
     quantity : QuantityValues, confidence : ConfidenceValues]
        \cup [kind : ReplyKinds \ {"json"}, action_type : {"record_sale"},
              item_name : {"laptop"}, quantity : {[type |-> "int", tenths |-> 20]},
              confidence : {[type |-> "num", hundredths |-> 95]}]

\* (None, None)
NoIntent == [action_type |-> "None", item_name |-> "", quantity |-> 0, confidence |-> 0]

\* int(quantity) on a positive number: the fraction is dropped
IntOf(quantity) == quantity.tenths \div Tenths

\* get_modification_intent, ai_processing.py lines 203-303; comparing null
\* with 0.7 raises TypeError, which line 295 turns into (None, None)
get_modification_intent(reply) ==
    IF reply.kind # "json" THEN NoIntent
    ELSE IF reply.action_type = "not_modification" THEN NoIntent
    ELSE IF reply.confidence.type = "null" THEN NoIntent
    ELSE IF reply.confidence.hundredths < CONFIDENCE_THRESHOLD THEN NoIntent
    ELSE IF reply.action_type \in {"record_sale", "add_stock"}
    THEN IF \/ reply.item_name = ""
            \/ reply.quantity.type \notin {"int", "float"}
            \/ reply.quantity.tenths <= 0
         THEN NoIntent
         ELSE [action_type |-> reply.action_type, item_name |-> reply.item_name,
               quantity |-> IntOf(reply.quantity),
               confidence |-> reply.confidence.hundredths]
    ELSE NoIntent

\* templates the model may answer with: placeholders, none, a trailing
\* semicolon, a question mark inside a string literal, a refusal
AiTemplates ==
    {ExistsQuery,
     "SELECT item FROM inventory",
     "SELECT item FROM inventory WHERE item = ?; ",
     "SELECT item FROM inventory WHERE item = ? AND quantity_available > ?",
     "SELECT item FROM inventory WHERE item = 'what?'",
     "SELECT item FROM stock WHERE item = ?",
     AddStockTemplate,
     "QUERY_UNSAFE"}

\* values of the "sql" key: a string or null; of "params": a list or null
SqlReplies ==
    [kind : {"json"}, sql_type : {"str"}, sql : AiTemplates, params_type : {"list"},
     params : ParamLists, response_type : {"data", "chart", "table"},
     chart_type : {"pie", "donut"}]
        \cup [kind : {"json"}, sql_type : {"str", "null"}, sql : {ExistsQuery},
              params_type : {"list", "null"}, params : {<<StrParam("laptop")>>},
              response_type : {"data"}, chart_type : {"pie"}]
        \cup [kind : ReplyKinds \ {"json"}, sql_type : {"str"}, sql : {ExistsQuery},
              params_type : {"list"}, params : {<<StrParam("laptop")>>},
              response_type : {"data"}, chart_type : {"pie"}]

\* (None,) * 6
NoSql == [sql_template |-> "None", params |-> <<>>, response_type |-> "None", chart_type |-> "None"]

\* lines 115-116 and 119: one trailing ';' removed, then strip()
CleanTemplate(sql_template) ==
    IF Len(sql_template) > 0 /\ Ch(sql_template, Len(sql_template)) = ";"
    THEN Strip(SubSeq(sql_template, 1, Len(sql_template) - 1))
    ELSE Strip(sql_template)

\* sql_template.count('?') and the cleaned template, evaluated once
QuestionMarks == [t \in AiTemplates |-> Placeholders(t)]
Cleaned == [t \in AiTemplates |-> CleanTemplate(t)]

\* line 111: sql_template.count('?') != len(params_list)
CountMismatch(sql_template, params_list) == QuestionMarks[sql_template] # Len(params_list)

\* get_sql_and_chart_info, ai_processing.py lines 39-140, without the chart
\* column suggestions, which are handed through
get_sql_and_chart_info(reply) ==
    IF reply.kind # "json" THEN NoSql
    ELSE IF reply.sql_type # "str" \/ reply.params_type # "list" THEN NoSql
    ELSE LET response_type == IF reply.response_type \in {"data", "chart"}
                              THEN reply.response_type ELSE "data"
             chart_type == IF response_type = "data" THEN "None"
                           ELSE IF reply.chart_type \in {"bar", "pie", "line", "scatter"}
                           THEN reply.chart_type ELSE "bar"
         IN  IF reply.sql \in Refusals
             THEN [sql_template |-> reply.sql, params |-> <<>>,
                   response_type |-> response_type, chart_type |-> chart_type]
             ELSE IF CountMismatch(reply.sql, reply.params) THEN NoSql
             ELSE [sql_template |-> Cleaned[reply.sql], params |-> reply.params,
                   response_type |-> response_type, chart_type |-> chart_type]

\* the parameters process_modification pairs with its templates, api.py lines
\* 318 and 326
ModificationParams(action_type, quantity, item_name) ==
    IF action_type = "record_sale"
    THEN <<IntParam(quantity), IntParam(quantity), StrParam(item_name)>>
    ELSE <<IntParam(quantity), StrParam(item_name)>>

ModificationTemplate(action_type) ==
    IF action_type = "record_sale" THEN RecordSaleTemplate ELSE AddStockTemplate

\* the number of ? parameters SQLite finds in a statement: a question mark
\* inside a string literal, that is after an odd number of quotes, is text
SqlPlaceholdersIn(statement) ==
    Cardinality({i \in 1..Len(statement) :
        /\ Ch(statement, i) = "?"
        /\ Cardinality({j \in 1..(i - 1) : Ch(statement, j) = "'"}) % 2 = 0})

\* the templates in their cleaned form, with SQLite's parameter count and the
\* validator's verdict, evaluated once
CleanedTemplates == {Cleaned[t] : t \in AiTemplates \ Refusals}
SqlPlaceholders ==
    [t \in CleanedTemplates \cup ModificationTemplates |-> SqlPlaceholdersIn(t)]
CleanedVerdict == [t \in CleanedTemplates |-> validate_sql(t)]

\* process_query lines 106-123: a template is handed to execute_query when it
\* is not None, not a refusal, and accepted by validate_sql
ReachesExecution(info) ==
    /\ info.sql_template # "None"
    /\ info.sql_template \notin Refusals
    /\ CleanedVerdict[info.sql_template]

AiInit == ApiInit

\* each call is one request to the client and keeps nothing for the next one
CallGetModificationIntent ==
    \E reply \in IntentReplies :
        /\ ai.fn = "none"
        /\ ai' = [fn |-> "get_modification_intent", reply |-> reply,
                  result |-> get_modification_intent(reply), raised |-> FALSE]
        /\ UNCHANGED <<validatorVars, apiVars, modVars, db, pq, hist>>

CallGetSqlAndChartInfo ==
    \E reply \in SqlReplies :
        /\ ai.fn = "none"
        /\ ai' = [fn |-> "get_sql_and_chart_info", reply |-> reply,
                  result |-> get_sql_and_chart_info(reply), raised |-> FALSE]
        /\ UNCHANGED <<validatorVars, apiVars, modVars, db, pq, hist>>

AiNext == CallGetModificationIntent \/ CallGetSqlAndChartInfo

SpecAi == AiInit /\ [][AiNext]_vars

\* the replies the claim lets through: a known action type, confidence of at
\* least 0.7, an item name, a quantity that is a number greater than 0
IntentAcceptable(reply) ==
    /\ reply.kind = "json"
    /\ reply.action_type \in {"record_sale", "add_stock"}
    /\ reply.confidence.type = "num"
    /\ reply.confidence.hundredths >= CONFIDENCE_THRESHOLD
    /\ reply.item_name # ""
    /\ reply.quantity.type \in {"int", "float"}
    /\ reply.quantity.tenths > 0

\* C23: a result of get_modification_intent other than (None, None) has
\* action type record_sale or add_stock, confidence of at least 0.7, a
\* non-empty item name and an integer quantity greater than 0; every other
\* reply gives (None, None), and the function does not raise.
C23_IntentIsWellFormedOrNone ==
    ai.fn = "get_modification_intent" =>
        /\ ~ai.raised
        /\ ai.result # NoIntent =>
              /\ ai.result.action_type \in {"record_sale", "add_stock"}
              /\ ai.result.confidence >= CONFIDENCE_THRESHOLD
              /\ ai.result.item_name # ""
              /\ ai.result.quantity > 0
        /\ ~IntentAcceptable(ai.reply) => ai.result = NoIntent

\* C24: a template that reaches execution comes with as many parameters as
\* it has ? placeholders; get_sql_and_chart_info returns all None when the
\* counts differ; process_modification's templates carry as many parameters
\* as placeholders.
C24_ParamsMatchPlaceholders ==
    /\ ai.fn = "get_sql_and_chart_info" /\ ReachesExecution(ai.result) =>
          Len(ai.result.params) = SqlPlaceholders[ai.result.sql_template]
    /\ \A action_type \in {"record_sale", "add_stock"} :
          Len(ModificationParams(action_type, 1, "LAPTOP"))
              = SqlPlaceholders[ModificationTemplate(action_type)]

(***************************************************************************)
(* process_query on a request without modification intent, as one run:     *)
(* the reply of get_sql_and_chart_info, validation, execution, the chart   *)
(* and the response.                                                       *)
(***************************************************************************)

CHART_FAILED == "Failed to generate requested chart."

\* what get_sql_and_chart_info can hand to process_query
SqlInfos == {get_sql_and_chart_info(reply) : reply \in SqlReplies}

\* execute_query's test of line 91 on the cleaned templates, evaluated once
CleanedIsSelect == [t \in CleanedTemplates |-> StartsWithSelect(t)]

\* the response of one run: kind is "json" or "chart_url"
QueryResponse(info, rows, image, executed, kind, status, error) ==
    [info |-> info, rows |-> rows, image |-> image, executed |-> executed, kind |-> kind,
     status |-> status, error |-> error]

\* api.py lines 171-178 run whether or not there is an image: with no image,
\* image_buffer.read() raises AttributeError and lines 246-264 answer
WritesImage(info, rows, image, executed) ==
    QueryResponse(info, rows, image, executed, "json", "error", "AttributeError")

\* process_query, api.py lines 100-264, for a reply info, a database call
\* that fails or returns rows rows, and a plotting function that returns an
\* image or None
process_query(info, db_fails, rows, image) ==
    IF info.sql_template = "None"
    THEN QueryResponse(info, rows, image, FALSE, "json", "error",
                       "AI failed to generate valid response.")
    ELSE IF info.sql_template \in Refusals
    THEN QueryResponse(info, rows, image, FALSE, "json", "error", "Query cannot be processed")
    ELSE IF ~CleanedVerdict[info.sql_template]
    THEN QueryResponse(info, rows, image, FALSE, "json", "error", "SQL validation failed.")
    ELSE IF ~CleanedIsSelect[info.sql_template]
    THEN QueryResponse(info, rows, image, FALSE, "json", "error",
                       "Only SELECT queries are allowed")
    ELSE IF db_fails \/ Len(info.params) # SqlPlaceholders[info.sql_template]
    THEN QueryResponse(info, rows, image, FALSE, "json", "error", "Database query failed")
    ELSE IF info.response_type = "chart" /\ rows = 0
    THEN \* lines 134-137, then lines 202-208
         QueryResponse(info, rows, image, TRUE, "json", "warning", CHART_FAILED)
    ELSE IF info.response_type = "chart" /\ image
    THEN QueryResponse(info, rows, image, TRUE, "chart_url", "success", "None")
    ELSE IF info.response_type = "chart"
    THEN WritesImage(info, rows, image, TRUE)
    ELSE QueryResponse(info, rows, image, TRUE, "json", "success", "None")

\* the largest number of rows a query returns
MaxRows == 2

QueryInit == ApiInit

\* one request on the table as initialised
CallProcessQuery ==
    \E info \in SqlInfos, db_fails \in BOOLEAN, rows \in 0..MaxRows, image \in BOOLEAN :
        /\ pq.status = "none"
        /\ pq' = process_query(info, db_fails, rows, image)
        /\ UNCHANGED <<validatorVars, apiVars, modVars, db, ai, hist>>

QueryNext == CallProcessQuery

SpecQuery == QueryInit /\ [][QueryNext]_vars

\* C25: a chart request whose query succeeded with at least one row and whose
\* plotting function returned no image is answered as data with status
\* warning and the message 'Failed to generate requested chart.'.
C25_ChartFallsBackToWarning ==
    (/\ pq.status # "none"
     /\ pq.info.response_type = "chart"
     /\ pq.executed
     /\ pq.rows > 0
     /\ ~pq.image) =>
        /\ pq.kind = "json"
        /\ pq.status = "warning"
        /\ pq.error = CHART_FAILED

(***************************************************************************)
(* Properties of interleaved requests                                      *)
(***************************************************************************)

\* C26: whatever the interleaving of requests with record_sale and add_stock
\* intents, no item's quantity_available drops below 0: the stock check and
\* the UPDATE of a sale are one step, no other request acts between them.
C26_StockNeverNegative ==
    \A item \in DOMAIN inventory : inventory[item].quantity_available >= 0

\* the whole stock of an item is sold and a sale of another request was
\* refused after its stock check, without an UPDATE
C26_Witness ==
    /\ inventory["LAPTOP"].quantity_available = 0
    /\ inventory["LAPTOP"].quantity_sold = InitStock
    /\ \E r \in Requests :
           /\ req[r].pc = "done"
           /\ req[r].status = "error"
           /\ \E c \in calls : c.req = r /\ c.statement = QuantityQuery
           /\ ~\E c \in calls : c.req = r /\ c.fn = "execute_modification"
    /\ \E r \in Requests : req[r].modified

\* the generated templates that do not start with SELECT
NotSelect == {t \in GeneratedTemplates : ~StartsWithSelect(t)}

\* C27: the table changes only in a step that calls execute_modification with
\* one of the two templates of process_modification; execute_modification is
\* called with nothing else; a request whose generated template does not
\* start with SELECT is answered with an error and has modified nothing, also
\* when validate_sql accepted the template.
C27_OnlyFixedTemplatesModify ==
    [][/\ inventory' # inventory =>
              \E c \in calls' \ calls :
                  c.fn = "execute_modification" /\ c.statement \in ModificationTemplates
       /\ \A c \in calls' :
              c.fn = "execute_modification" => c.statement \in ModificationTemplates
       /\ \A r \in Requests :
              req'[r].sql_template \in NotSelect =>
                  /\ req'[r].pc = "done"
                  /\ req'[r].status = "error"
                  /\ ~req'[r].modified]_vars

\* a generated UPDATE that validate_sql accepted was refused by execute_query,
\* while another request modified the table through process_modification
C27_Witness ==
    /\ \E r \in Requests :
           /\ req[r].sql_template \in NotSelect
           /\ req[r].verdict = "accept"
           /\ req[r].pc = "done"
           /\ req[r].status = "error"
           /\ \E c \in calls : c.req = r /\ c.fn = "execute_query" /\ c.origin = "template"
    /\ \E r \in Requests : req[r].modified

(***************************************************************************)
(* The conversation history of one session: the dict entry, the list       *)
(* objects, and requests that overlap at their awaits.                     *)
(***************************************************************************)

\* the messages of turn t: the user's and the assistant's
UserMessage(t) == 2 * t - 1
AssistantMessage(t) == 2 * t

\* a store that keeps the whole list
WholeHistory(history) == history

\* history[-(MAX_HISTORY_TURNS * 2):]
Limited(history) ==
    IF Len(history) <= 2 * MAX_HISTORY_TURNS THEN history
    ELSE SubSeq(history, Len(history) - 2 * MAX_HISTORY_TURNS + 1, Len(history))

\* the list objects requests under way, other than r, refer to
HeldByOthers(r) == {hist.slot[s].history : s \in {s \in Requests \ {r} : hist.slot[s].pc # "idle"}}

\* a list object nothing refers to
Fresh(held) == CHOOSE o \in Objects \ held : \A p \in Objects \ held : o <= p

\* process_query lines 61-73: a session in conversation_histories hands out
\* its stored list itself; otherwise a new empty list is stored at once; the
\* request keeps a copy of the last ten messages for the language model
HistReceive(r) ==
    /\ hist.slot[r].pc = "idle"
    /\ hist.next <= MaxTurns
    /\ LET known == hist.stored # 0
           history == IF known THEN hist.stored ELSE Fresh(HeldByOthers(r))
           heap == IF known THEN hist.heap ELSE [hist.heap EXCEPT ![history] = <<>>]
       IN  hist' = [hist EXCEPT
                       !.stored = history,
                       !.heap = heap,
                       !.slot[r] = [pc |-> "await", turn |-> hist.next,
                                    history |-> history, limited |-> Limited(heap[history])],
                       !.next = @ + 1]
    /\ UNCHANGED <<validatorVars, apiVars, modVars, db, ai, pq>>

\* the two appends and the store on a list: the list object appended to keeps
\* both messages, the dict entry becomes a new list of the last ten, and a
\* list nothing refers to any more is dropped
StoreTurn(r, appended_to, list) ==
    LET held == HeldByOthers(r)
        stored == Fresh(held)
    IN  hist' = [hist EXCEPT
                    !.stored = stored,
                    !.heap = [o \in Objects |->
                                 IF o = stored THEN Limited(list)
                                 ELSE IF o \notin held THEN <<>>
                                 ELSE IF o = appended_to THEN list
                                 ELSE hist.heap[o]],
                    !.slot[r] = IdleSlot,
                    !.answered = Append(@, hist.slot[r].turn)]

\* process_query lines 186-188, 227-229, 255-257: the chart, data and error
\* responses append to the list the request took at line 64 or 68
HistAnswerQuery(r) ==
    /\ hist.slot[r].pc = "await"
    /\ LET t == hist.slot[r].turn
           history == hist.slot[r].history
       IN  StoreTurn(r, history,
                     hist.heap[history] \o <<UserMessage(t), AssistantMessage(t)>>)
    /\ UNCHANGED <<validatorVars, apiVars, modVars, db, ai, pq>>

\* process_modification lines 377-381: its history argument is limited_history
\* (process_query line 97), the request's own copy
HistAnswerModification(r) ==
    /\ hist.slot[r].pc = "await"
    /\ LET t == hist.slot[r].turn
       IN  StoreTurn(r, 0, hist.slot[r].limited \o <<UserMessage(t), AssistantMessage(t)>>)
    /\ UNCHANGED <<validatorVars, apiVars, modVars, db, ai, pq>>

HistInit == ApiInit

HistNext == \E r \in Requests : HistReceive(r) \/ HistAnswerQuery(r) \/ HistAnswerModification(r)

SpecHist == HistInit /\ [][HistNext]_vars

\* C28: the list stored for the session holds at most 2 * MAX_HISTORY_TURNS
\* messages, and so does the history a request under way hands to the
\* language model.
C28_HistoryCapped ==
    /\ hist.stored # 0 => Len(hist.heap[hist.stored]) <= 2 * MAX_HISTORY_TURNS
    /\ \A r \in Requests : Len(hist.slot[r].limited) <= 2 * MAX_HISTORY_TURNS

\* more than five turns were answered, the stored list is full, and a request
\* under way holds a full history for the language model
C28_Witness ==
    /\ Len(hist.answered) > MAX_HISTORY_TURNS
    /\ Len(hist.heap[hist.stored]) = 2 * MAX_HISTORY_TURNS
    /\ \E r \in Requests :
           hist.slot[r].pc = "await" /\ Len(hist.slot[r].limited) = 2 * MAX_HISTORY_TURNS

\* the turns whose messages the cap leaves room for: the last
\* MAX_HISTORY_TURNS answered
KeptTurns ==
    {hist.answered[i] : i \in {i \in 1..Len(hist.answered) :
                                  i > Len(hist.answered) - MAX_HISTORY_TURNS}}

\* C29: the stored history holds the user message and the assistant reply of
\* every answered request that the cap leaves room for, also when requests of
\* the session overlapped: no turn is lost.
C29_NoTurnLost ==
    \A t \in KeptTurns :
        \E i \in 1..Len(hist.heap[hist.stored]) :
            /\ hist.heap[hist.stored][i] = UserMessage(t)
            /\ i < Len(hist.heap[hist.stored])
            /\ hist.heap[hist.stored][i + 1] = AssistantMessage(t)

====
